---- MODULE Spec2Model ----
(***************************************************************************)
(* PhantomBand: the tabular signal normaliser parseAndAnalyzeCsv, in its   *)
(* two variants that define ColumnDetectionError:                          *)
(*   "adaptive"  src/unnamed/part_000      (statistical delimiter choice)  *)
(*   "fixed"     src/utils/csvParser.ts    (fixed multi-character split)   *)
(* Strings are sequences of one-character strings, so that trimming,       *)
(* splitting, keyword search and number parsing are computed as the code   *)
(* computes them.  Numbers are IEEE doubles abstracted to NaN, +/-Infinity *)
(* and finite decimals with FracDigits fractional digits.                  *)
(***************************************************************************)
EXTENDS Integers, Sequences, FiniteSets, TLC

(***************************************************************************)
(* Bounds of the model.                                                    *)
(***************************************************************************)
\* fractional decimal digits a finite number keeps
FracDigits == 1
\* data rows of the generated long captures
MaxRows == 12

(***************************************************************************)
(* Characters and strings.                                                 *)
(***************************************************************************)
\* F applied to the value of x.  As in the code, where an argument or a
\* const is evaluated before it is used, x is evaluated once.
Bind(x, F(_)) == CHOOSE r \in {F(v) : v \in {y \in {x} : y = y}} : TRUE

TAB == "\t"
LF == "\n"
CR == "\r"
SP == " "

\* the white space String.prototype.trim and the regular expression \s remove
WhiteSpace == {SP, TAB, LF, CR}

Digits == <<"0", "1", "2", "3", "4", "5", "6", "7", "8", "9">>

DigitSet == {Digits[i] : i \in 1..10}

DigitVal(c) == (CHOOSE i \in 1..10 : Digits[i] = c) - 1

UpperCase == <<"A", "B", "C", "D", "E", "F", "G", "H", "I", "J", "K", "L", "M",
               "N", "O", "P", "Q", "R", "S", "T", "U", "V", "W", "X", "Y", "Z">>

LowerCase == <<"a", "b", "c", "d", "e", "f", "g", "h", "i", "j", "k", "l", "m",
               "n", "o", "p", "q", "r", "s", "t", "u", "v", "w", "x", "y", "z">>

\* String.prototype.toLowerCase
toLowerCase(str) ==
    Bind(str, LAMBDA s :
        [i \in 1..Len(s) |->
            IF \E k \in 1..26 : UpperCase[k] = s[i]
            THEN LowerCase[CHOOSE k \in 1..26 : UpperCase[k] = s[i]]
            ELSE s[i]])

\* String.prototype.trim
trim(str) ==
    Bind(str, LAMBDA s :
    Bind({i \in 1..Len(s) : s[i] \notin WhiteSpace}, LAMBDA keep :
        IF keep = {} THEN <<>>
        ELSE SubSeq(s, CHOOSE i \in keep : \A j \in keep : i <= j,
                       CHOOSE i \in keep : \A j \in keep : i >= j)))

\* String.prototype.includes
includes(str, sub) ==
    Bind(str, LAMBDA s :
        \E i \in 0..(Len(s) - Len(sub)) : SubSeq(s, i + 1, i + Len(sub)) = sub)

\* String.prototype.endsWith
endsWith(str, suf) ==
    Bind(str, LAMBDA s :
        /\ Len(suf) <= Len(s)
        /\ SubSeq(s, Len(s) - Len(suf) + 1, Len(s)) = suf)

\* String.prototype.replace(/c/g, '')
removeAll(s, c) == SelectSeq(s, LAMBDA x : x # c)

\* the pieces of s between separators: cuts holds the index at which each
\* separator starts and last[i] is the index at which the one starting at i ends
Pieces(s, cuts, last) ==
    Bind(cuts, LAMBDA starts :
        LET nth(k) == CHOOSE i \in starts : Cardinality({j \in starts : j < i}) = k - 1
            n == Cardinality(starts)
        IN  [k \in 1..(n + 1) |->
                SubSeq(s, IF k = 1 THEN 1 ELSE last[nth(k - 1)] + 1,
                          IF k = n + 1 THEN Len(s) ELSE nth(k) - 1)])

\* String.prototype.split(d) for a one-character separator d
split(str, d) ==
    Bind(str, LAMBDA s :
        Pieces(s, {i \in 1..Len(s) : s[i] = d}, [i \in 1..Len(s) |-> i]))

\* String.prototype.split(/[D]+/): every maximal run of characters of D separates
splitRuns(str, D) ==
    Bind(str, LAMBDA s :
        Pieces(s, {i \in 1..Len(s) : s[i] \in D /\ (i = 1 \/ s[i - 1] \notin D)},
               [i \in 1..Len(s) |->
                   CHOOSE j \in i..Len(s) :
                       /\ \A m \in i..j : s[m] \in D
                       /\ (j = Len(s) \/ s[j + 1] \notin D)]))

\* String.prototype.split(/\r\n?|\n/): CR LF, CR alone and LF alone end a line
splitLines(str) ==
    Bind(str, LAMBDA s :
        Pieces(s, {i \in 1..Len(s) :
                      \/ s[i] = CR
                      \/ (s[i] = LF /\ (i = 1 \/ s[i - 1] # CR))},
               [i \in 1..Len(s) |->
                   IF s[i] = CR /\ i < Len(s) /\ s[i + 1] = LF THEN i + 1 ELSE i]))

(***************************************************************************)
(* Numbers.  A double is NaN, +Infinity, -Infinity, or a finite value kept *)
(* as an integer count of 10^-FracDigits.  A decimal literal of 10^309 or  *)
(* more is beyond the largest double and parses as Infinity.               *)
(***************************************************************************)
NaN == [k |-> "nan", v |-> 0]

Infinity(sg) == [k |-> "inf", v |-> sg]

Finite(x) == [k |-> "fin", v |-> x]

isNaN(x) == x.k = "nan"

isFinite(x) == x.k = "fin"

RECURSIVE Pow10(_)
Pow10(n) == IF n <= 0 THEN 1 ELSE 10 * Pow10(n - 1)

RECURSIVE NumDigits(_)
NumDigits(m) == IF m < 10 THEN 1 ELSE 1 + NumDigits(m \div 10)

\* the end (exclusive) of the run of decimal digits of s that starts at i
DigitRunEnd(s, i) ==
    CHOOSE j \in i..(Len(s) + 1) :
        /\ \A m \in i..(j - 1) : s[m] \in DigitSet
        /\ (j = Len(s) + 1 \/ s[j] \notin DigitSet)

RECURSIVE DigitsValue(_, _, _)
DigitsValue(s, a, b) ==
    IF a >= b THEN 0 ELSE DigitsValue(s, a, b - 1) * 10 + DigitVal(s[b - 1])

InfinityLiteral == <<"I", "n", "f", "i", "n", "i", "t", "y">>

\* the index of the first character of s that is not white space
FirstNonWhiteSpace(s) ==
    Bind({i \in 1..Len(s) : s[i] \notin WhiteSpace}, LAMBDA nonWs :
        IF nonWs = {} THEN Len(s) + 1
        ELSE CHOOSE i \in nonWs : \A j \in nonWs : i <= j)

\* the sign a literal that starts at i0 carries
SignAt(s, i0) == IF i0 <= Len(s) /\ s[i0] = "-" THEN -1 ELSE 1

\* where the fraction that may follow the integer digits ends (exclusive)
FractionEnd(s, intEnd) ==
    IF intEnd <= Len(s) /\ s[intEnd] = "." THEN DigitRunEnd(s, intEnd + 1)
    ELSE intEnd

\* where the digits of an exponent part would start: behind e or E and an
\* optional sign; 0 when no exponent indicator follows the mantissa
ExponentDigitsStart(s, fracEnd) ==
    IF fracEnd <= Len(s) /\ s[fracEnd] \in {"e", "E"}
    THEN IF fracEnd + 1 <= Len(s) /\ s[fracEnd + 1] \in {"+", "-"}
         THEN fracEnd + 2
         ELSE fracEnd + 1
    ELSE 0

\* the double of sg * mant * 10^dexp
DecimalValue(sg, mant, dexp) ==
    IF mant = 0 THEN Finite(0)
    \* 10^309 and above: beyond the largest double, 1.797...e308
    ELSE IF NumDigits(mant) + dexp > 309 THEN Infinity(sg)
    ELSE IF dexp + FracDigits >= 0 THEN Finite(sg * mant * Pow10(dexp + FracDigits))
    ELSE Finite(sg * (mant \div Pow10(0 - (dexp + FracDigits))))

\* the literal with integer digits i1..intEnd-1, fraction up to fracEnd and
\* exponent digits e2..expEnd-1 (an exponent part without digits is no part
\* of the literal)
ScanAssemble(s, i0, i1, intEnd, fracEnd, e2, expEnd) ==
    Bind(IF fracEnd > intEnd THEN fracEnd - intEnd - 1 ELSE 0, LAMBDA nFrac :
    Bind(e2 > 0 /\ expEnd > e2, LAMBDA hasExp :
    Bind(DigitsValue(s, i1, intEnd) * Pow10(nFrac)
             + DigitsValue(s, intEnd + 1, fracEnd), LAMBDA mant :
    Bind(IF ~hasExp THEN 0
         ELSE IF s[e2 - 1] = "-" THEN 0 - DigitsValue(s, e2, expEnd)
         ELSE DigitsValue(s, e2, expEnd), LAMBDA expVal :
        [val |-> DecimalValue(SignAt(s, i0), mant, expVal - nFrac),
         end |-> IF hasExp THEN expEnd ELSE fracEnd]))))

ScanExponent(s, i0, i1, intEnd, fracEnd, e2) ==
    Bind(IF e2 = 0 THEN 0 ELSE DigitRunEnd(s, e2), LAMBDA expEnd :
        ScanAssemble(s, i0, i1, intEnd, fracEnd, e2, expEnd))

ScanFraction(s, i0, i1, intEnd, fracEnd) ==
    IF (intEnd - i1) + (IF fracEnd > intEnd THEN fracEnd - intEnd - 1 ELSE 0) = 0
    THEN [val |-> NaN, end |-> i0]
    ELSE Bind(ExponentDigitsStart(s, fracEnd), LAMBDA e2 :
             ScanExponent(s, i0, i1, intEnd, fracEnd, e2))

ScanInteger(s, i0, i1, intEnd) ==
    Bind(FractionEnd(s, intEnd), LAMBDA fracEnd :
        ScanFraction(s, i0, i1, intEnd, fracEnd))

ScanUnsigned(s, i0, i1) ==
    IF i1 + 7 <= Len(s) /\ SubSeq(s, i1, i1 + 7) = InfinityLiteral
    THEN [val |-> Infinity(SignAt(s, i0)), end |-> i1 + 8]
    ELSE Bind(DigitRunEnd(s, i1), LAMBDA intEnd : ScanInteger(s, i0, i1, intEnd))

ScanSigned(s, i0) ==
    Bind(IF i0 <= Len(s) /\ s[i0] \in {"+", "-"} THEN i0 + 1 ELSE i0, LAMBDA i1 :
        ScanUnsigned(s, i0, i1))

\* The longest prefix of s, after leading white space, that is a
\* StrDecimalLiteral (ECMAScript 7.1.4.1): its value, and where it ends
\* (exclusive; where it would start, when there is none).
ScanDecimal(str) ==
    Bind(str, LAMBDA s :
    Bind(FirstNonWhiteSpace(s), LAMBDA i0 : ScanSigned(s, i0)))

\* the global parseFloat: the value of the longest numeric prefix, else NaN
parseFloat(s) == ScanDecimal(s).val

\* Number(string): the whole trimmed string must be a numeric literal; '' is 0
Number(s) ==
    Bind(trim(s), LAMBDA t :
        IF t = <<>> THEN Finite(0)
        ELSE Bind(ScanDecimal(t), LAMBDA scanned :
                 IF scanned.end = Len(t) + 1 THEN scanned.val ELSE NaN))

(***************************************************************************)
(* Arithmetic on doubles, as far as the parser uses it.                    *)
(***************************************************************************)
\* a + b
Add(a, b) ==
    IF isNaN(a) \/ isNaN(b) THEN NaN
    ELSE IF isFinite(a) /\ isFinite(b) THEN Finite(a.v + b.v)
    ELSE IF isFinite(a) THEN b
    ELSE IF isFinite(b) THEN a
    ELSE IF a.v = b.v THEN a
    ELSE NaN

\* a - b
Subtract(a, b) ==
    IF isNaN(a) \/ isNaN(b) THEN NaN
    ELSE IF isFinite(a) /\ isFinite(b) THEN Finite(a.v - b.v)
    ELSE IF isFinite(a) THEN Infinity(0 - b.v)
    ELSE IF isFinite(b) THEN a
    ELSE IF a.v = b.v THEN NaN
    ELSE a

\* x < 0
Negative(x) == ~isNaN(x) /\ x.v < 0

\* x > 0
Positive(x) == ~isNaN(x) /\ x.v > 0

\* Array.prototype.sort(cmp), which is stable: the element at i goes behind
\* every element whose comparison with it is negative and behind the earlier
\* elements it ties with (a NaN comparison counts as a tie).  keys[i] is the
\* number the comparator reads from element i; descending is (a,b) => b - a.
SortRank(keys, descending, i) ==
    LET cmp(a, b) == IF descending THEN Subtract(keys[b], keys[a])
                     ELSE Subtract(keys[a], keys[b])
    IN  1 + Cardinality({j \in 1..Len(keys) :
                \/ Negative(cmp(j, i))
                \/ (~Negative(cmp(i, j)) /\ j < i)})

\* the sorted copy of arr under the keys
sort(arr, keys, descending) ==
    Bind(arr, LAMBDA seq :
    Bind(keys, LAMBDA ks :
    Bind([i \in 1..Len(seq) |-> SortRank(ks, descending, i)], LAMBDA ranks :
        [r \in 1..Len(seq) |-> seq[CHOOSE i \in 1..Len(seq) : ranks[i] = r]])))

\* Array.prototype.slice(from, to) with 0 <= from
slice(arr, from, to) ==
    Bind(arr, LAMBDA seq :
        IF from >= Len(seq) \/ to <= from THEN <<>>
        ELSE SubSeq(seq, from + 1, IF to < Len(seq) THEN to ELSE Len(seq)))

\* Array.prototype.slice(-n)
sliceLast(arr, n) ==
    Bind(arr, LAMBDA seq :
        IF Len(seq) <= n THEN seq ELSE SubSeq(seq, Len(seq) - n + 1, Len(seq)))

\* the value of arr[i] for a 0-based index i: undefined outside the array
Undefined == <<"undefined">>

at(arr, i) == IF i >= 0 /\ i < Len(arr) THEN arr[i + 1] ELSE Undefined

RECURSIVE toString(_)
\* String(n) for an integer n >= 0
toString(n) ==
    IF n < 10 THEN <<Digits[n + 1]>>
    ELSE Append(toString(n \div 10), Digits[(n % 10) + 1])

(***************************************************************************)
(* Cell tests and cell cleaning.                                           *)
(***************************************************************************)
\* part_000: strips thousands separators before the test
isNumeric(str) ==
    IF trim(str) = <<>> THEN FALSE
    ELSE Bind(removeAll(str, ","), LAMBDA numStr :
             ~isNaN(parseFloat(numStr)) /\ isFinite(Number(numStr)))

\* utils/csvParser.ts
isNumericFixed(str) ==
    IF trim(str) = <<>> THEN FALSE
    ELSE ~isNaN(parseFloat(str)) /\ isFinite(Number(str))

UnitSuffixes == << <<"m", "h", "z">>, <<"k", "h", "z">>, <<"g", "h", "z">>,
                   <<"h", "z">>, <<"d", "b", "m">>, <<"d", "b">>,
                   <<"m", "w">>, <<"p", "w", "r">> >>

\* replace(/(mhz|khz|ghz|hz|dbm|db|mw|pwr)$/i, ''): the leftmost match that
\* reaches the end of the string, which is the longest of the matching suffixes
stripUnitSuffix(str) ==
    Bind(str, LAMBDA s :
    Bind(toLowerCase(s), LAMBDA l :
    Bind({i \in 1..Len(UnitSuffixes) : endsWith(l, UnitSuffixes[i])}, LAMBDA hits :
        IF hits = {} THEN s
        ELSE Bind(CHOOSE i \in hits :
                      \A j \in hits : Len(UnitSuffixes[j]) <= Len(UnitSuffixes[i]),
                  LAMBDA longest : SubSeq(s, 1, Len(s) - Len(UnitSuffixes[longest]))))))

\* part_000
cleanAndParseFloat(value) ==
    IF value = Undefined \/ value = <<>> THEN NaN
    ELSE Bind(trim(stripUnitSuffix(toLowerCase(removeAll(trim(value), ",")))),
              LAMBDA cleanedValue :
                  IF cleanedValue = <<>> THEN NaN ELSE parseFloat(cleanedValue))

\* utils/csvParser.ts
cleanAndParseFloatFixed(value) ==
    IF value = Undefined \/ value = <<>> THEN NaN
    ELSE parseFloat(trim(stripUnitSuffix(toLowerCase(trim(value)))))

(***************************************************************************)
(* Tokenising.                                                             *)
(***************************************************************************)
delimiters == <<",", ";", TAB>>

\* what detectDelimiter's reduce() without an initial value does on an empty
\* array, should it be reached
TypeErrorThrown == "TypeError"

RECURSIVE SumTo(_, _)
\* counts.reduce((a, b) => a + b) over the first n entries
SumTo(counts, n) == IF n = 0 THEN 0 ELSE SumTo(counts, n - 1) + counts[n]

\* One entry of detectDelimiter's stats, for the column counts above one of
\* the sampled lines.  The population variance of counts is varNum / varDen,
\* so that stddev < 0.5 is 4 * varNum < varDen.
StatOfCounts(d, sampled, counts, n) ==
    IF 2 * n < sampled
    THEN [d |-> d, valid |-> FALSE, threw |-> FALSE, varNum |-> 1, varDen |-> 0]
    ELSE IF n = 0
    THEN [d |-> d, valid |-> FALSE, threw |-> TRUE, varNum |-> 1, varDen |-> 0]
    ELSE [d |-> d, valid |-> TRUE, threw |-> FALSE,
          varNum |-> n * SumTo([i \in 1..n |-> counts[i] * counts[i]], n)
                        - SumTo(counts, n) * SumTo(counts, n),
          varDen |-> n * n]

\* lines.map(line => line.split(d).length).filter(c => c > 1)
ColumnCounts(sampleLines, d) ==
    SelectSeq([i \in 1..Len(sampleLines) |-> Len(split(sampleLines[i], d))],
              LAMBDA c : c > 1)

DelimiterStat(sampleLines, d) ==
    Bind(ColumnCounts(sampleLines, d), LAMBDA counts :
        StatOfCounts(d, IF Len(sampleLines) < 5 THEN Len(sampleLines) ELSE 5,
                     counts, Len(counts)))

\* a detector whose fallback is the comma
BestDelimiterCommaFallback(stats) ==
    Bind({i \in 1..Len(delimiters) :
             stats[i].valid /\ 4 * stats[i].varNum < stats[i].varDen}, LAMBDA candidates :
        LET less(i, j) ==
                stats[i].varNum * stats[j].varDen < stats[j].varNum * stats[i].varDen
        IN  IF candidates # {}
            THEN delimiters[CHOOSE i \in candidates :
                                \A j \in candidates : ~less(j, i) /\ (j < i => less(i, j))]
            ELSE ",")

\* a detector that takes the later of comma, semicolon, tab on a tie
BestDelimiterLaterOnTie(stats) ==
    Bind({i \in 1..Len(delimiters) :
             stats[i].valid /\ 4 * stats[i].varNum < stats[i].varDen}, LAMBDA candidates :
        LET less(i, j) ==
                stats[i].varNum * stats[j].varDen < stats[j].varNum * stats[i].varDen
        IN  IF candidates # {}
            THEN delimiters[CHOOSE i \in candidates :
                                \A j \in candidates : ~less(j, i) /\ (j > i => less(i, j))]
            ELSE SP)

\* a detector that takes the first candidate, whatever the deviations
BestDelimiterByPriority(stats) ==
    Bind({i \in 1..Len(delimiters) :
             stats[i].valid /\ 4 * stats[i].varNum < stats[i].varDen}, LAMBDA candidates :
        IF candidates # {}
        THEN delimiters[CHOOSE i \in candidates : \A j \in candidates : i <= j]
        ELSE SP)

\* the candidate of least standard deviation below 0.5, the earlier of comma,
\* semicolon, tab on a tie (the sort is stable); else white space
BestDelimiter(stats) ==
    Bind({i \in 1..Len(delimiters) :
             stats[i].valid /\ 4 * stats[i].varNum < stats[i].varDen}, LAMBDA candidates :
        LET less(i, j) ==
                stats[i].varNum * stats[j].varDen < stats[j].varNum * stats[i].varDen
        IN  IF \E i \in 1..Len(delimiters) : stats[i].threw THEN TypeErrorThrown
            ELSE IF candidates # {}
            THEN delimiters[CHOOSE i \in candidates :
                                \A j \in candidates : ~less(j, i) /\ (j < i => less(i, j))]
            ELSE SP)

\* part_000: detectDelimiter over the sampled lines
detectDelimiter(lines) ==
    Bind(lines, LAMBDA sampleLines :
    Bind([i \in 1..Len(delimiters) |-> DelimiterStat(sampleLines, delimiters[i])],
         LAMBDA stats : BestDelimiter(stats)))

\* part_000: split on the detected delimiter and trim each cell, or split on
\* runs of white space
parseCsvRow(delimiter, row) ==
    IF delimiter = SP THEN splitRuns(trim(row), WhiteSpace)
    ELSE Bind(split(row, delimiter), LAMBDA cells :
             [i \in 1..Len(cells) |-> trim(cells[i])])

\* utils/csvParser.ts: row.trim().split(/[\t,; ]+/)
parseCsvRowFixed(row) == splitRuns(trim(row), {TAB, ",", ";", SP})

\* the marker the fixed variant keeps in place of a detected delimiter
FixedSplit == "fixed"

Tokenize(delimiter, row) ==
    IF delimiter = FixedSplit THEN parseCsvRowFixed(row) ELSE parseCsvRow(delimiter, row)

NumericCell(delimiter, str) ==
    IF delimiter = FixedSplit THEN isNumericFixed(str) ELSE isNumeric(str)

CleanCell(delimiter, value) ==
    IF delimiter = FixedSplit THEN cleanAndParseFloatFixed(value)
    ELSE cleanAndParseFloat(value)

\* text.trim().split(/\r\n?|\n/).filter(line => line.trim() !== '')
SplitLines(text) ==
    SelectSeq(splitLines(trim(text)), LAMBDA line : trim(line) # <<>>)

(***************************************************************************)
(* Locating the start of the data.                                         *)
(***************************************************************************)
\* whether the cells of a scanned line look like a data row
LooksLikeData(delimiter, columns) ==
    IF delimiter = FixedSplit THEN Len(columns) >= 2
    ELSE Len(columns) >= 2 /\ isNumeric(columns[1])

\* part_000: the line before the first data line is taken as the header when
\* it has as many cells and one of them is not numeric
HeaderBefore(delimiter, rows, i) ==
    IF delimiter # FixedSplit /\ i > 0
       /\ Len(rows[i]) = Len(rows[i + 1])
       /\ \E k \in 1..Len(rows[i]) : ~isNumeric(rows[i][k])
    THEN i - 1
    ELSE i

\* dataStartIndex for the tokenised first lines: rows[i + 1] is line i
DataStartOf(delimiter, rows, found) ==
    IF found = {} THEN 0
    ELSE Bind(CHOOSE k \in found : \A m \in found : k <= m, LAMBDA i :
             HeaderBefore(delimiter, rows, i))

ScannedRows(delimiter, lines) ==
    [i \in 1..(IF Len(lines) < 10 THEN Len(lines) ELSE 10) |-> Tokenize(delimiter, lines[i])]

FoundData(delimiter, rows) ==
    {i \in 0..(Len(rows) - 1) : LooksLikeData(delimiter, rows[i + 1])}

\* the scan of the first 10 lines for the first line that looks like data
LocateDataStart(delimiter, lines) ==
    Bind(ScannedRows(delimiter, lines), LAMBDA rows :
    Bind(FoundData(delimiter, rows), LAMBDA found :
        DataStartOf(delimiter, rows, found)))

\* firstLineValues.some(val => val !== '' && !isNumeric(val))
HasHeader(delimiter, firstLineValues) ==
    \E k \in 1..Len(firstLineValues) :
        firstLineValues[k] # <<>> /\ ~NumericCell(delimiter, firstLineValues[k])

\* Array.from({ length: numColumns }, (_, i) => `Column ${i + 1}`)
SyntheticHeaders(numColumns) ==
    [i \in 1..numColumns |-> <<"C", "o", "l", "u", "m", "n", " ">> \o toString(i)]

(***************************************************************************)
(* Column role resolution.                                                 *)
(***************************************************************************)
freqKeywords ==
    << <<"f", "r", "e", "q">>,
       <<"f", "r", "e", "q", "u", "e", "n", "c", "y">>,
       <<"m", "h", "z">>,
       <<"k", "h", "z">>,
       <<"g", "h", "z">>,
       <<"h", "e", "r", "t", "z">>,
       <<"h", "z">>,
       <<"c", "h", "a", "n", "n", "e", "l">>,
       <<"b", "a", "n", "d">>,
       <<"f", "r", "e", "q", ".">>,
       <<"f", "(", "m", "h", "z", ")">> >>

powerKeywords ==
    << <<"p", "o", "w", "e", "r">>,
       <<"d", "b", "m">>,
       <<"d", "b">>,
       <<"l", "e", "v", "e", "l">>,
       <<"a", "m", "p", "l", "i", "t", "u", "d", "e">>,
       <<"r", "s", "s", "i">>,
       <<"s", "i", "g", "n", "a", "l">>,
       <<"s", "t", "r", "e", "n", "g", "t", "h">>,
       <<"i", "n", "t", "e", "n", "s", "i", "t", "y">>,
       <<"s", "i", "g", "_", "s", "t", "r">>,
       <<"p", "w", "r">> >>

\* the number of keywords the header contains
KeywordHits(header, keywords) ==
    Cardinality({k \in 1..Len(keywords) : includes(header, keywords[k])})

\* part_000: a header that is exactly a keyword scores 10
scoreHeader(header, keywords) ==
    IF \E k \in 1..Len(keywords) : keywords[k] = header THEN 10
    ELSE KeywordHits(header, keywords)

\* utils/csvParser.ts: no exact-match bonus
scoreHeaderFixed(header, keywords) == KeywordHits(header, keywords)

ScoreHeader(delimiter, header, keywords) ==
    IF delimiter = FixedSplit THEN scoreHeaderFixed(header, keywords)
    ELSE scoreHeader(header, keywords)

\* the candidates of a header row: {index, freqScore, powerScore} per cell
HeaderCandidates(delimiter, headerValues) ==
    [i \in 1..Len(headerValues) |->
        Bind(trim(toLowerCase(headerValues[i])), LAMBDA h :
            [index |-> i - 1,
             freqScore |-> ScoreHeader(delimiter, h, freqKeywords),
             powerScore |-> ScoreHeader(delimiter, h, powerKeywords)])]

\* candidates.filter(c => c.freqScore > 0).sort((a,b) => b.freqScore - a.freqScore)
FreqCandidates(candidates) ==
    Bind(SelectSeq(candidates, LAMBDA c : c.freqScore > 0), LAMBDA kept :
        sort(kept, [i \in 1..Len(kept) |-> Finite(kept[i].freqScore)], TRUE))

PowerCandidates(candidates) ==
    Bind(SelectSeq(candidates, LAMBDA c : c.powerScore > 0), LAMBDA kept :
        sort(kept, [i \in 1..Len(kept) |-> Finite(kept[i].powerScore)], TRUE))

\* ranked.find(c => c.index !== conflictIndex)?.index, or orElse when none
NextBestIndex(ranked, conflictIndex, orElse) ==
    Bind(SelectSeq(ranked, LAMBDA c : c.index # conflictIndex), LAMBDA others :
        IF others = <<>> THEN orElse ELSE others[1].index)

\* the assignment when the best candidates are bestFreq and bestPower
ResolveBest(freqCandidates, powerCandidates, bestFreq, bestPower, freqIndex0, powerIndex0) ==
    IF bestFreq.index # bestPower.index
    THEN [freqIndex |-> bestFreq.index, powerIndex |-> bestPower.index]
    ELSE IF bestFreq.freqScore > bestPower.powerScore
    THEN [freqIndex |-> bestFreq.index,
          powerIndex |-> NextBestIndex(powerCandidates, bestFreq.index, powerIndex0)]
    ELSE [freqIndex |-> NextBestIndex(freqCandidates, bestFreq.index, freqIndex0),
          powerIndex |-> bestFreq.index]

\* the header-keyword path; an index it does not assign keeps its value
ResolveByHeader(freqCandidates, powerCandidates, freqIndex0, powerIndex0) ==
    ResolveBest(freqCandidates, powerCandidates, freqCandidates[1],
                powerCandidates[1], freqIndex0, powerIndex0)

\* cleanAndParseFloat(row[i]) for every sampled row and column of the first
CleanedSample(delimiter, sampleRows) ==
    [r \in 1..Len(sampleRows) |->
        [c \in 1..Len(sampleRows[1]) |-> CleanCell(delimiter, at(sampleRows[r], c - 1))]]

\* columnStats of the statistical path: per column of the first sampled row,
\* how many sampled cells clean to a number and how many of those are negative
ColumnStatsOf(cleaned, numColumns) ==
    [c \in 1..numColumns |->
        [index |-> c - 1,
         numericCount |->
             Cardinality({r \in 1..Len(cleaned) : ~isNaN(cleaned[r][c])}),
         negativeCount |->
             Cardinality({r \in 1..Len(cleaned) :
                             ~isNaN(cleaned[r][c]) /\ Negative(cleaned[r][c])})]]

ColumnStats(delimiter, sampleRows) ==
    Bind(CleanedSample(delimiter, sampleRows), LAMBDA cleaned :
        ColumnStatsOf(cleaned, Len(sampleRows[1])))

\* .sort((a, b) => b.numericCount - a.numericCount)
ByNumericCount(columns) ==
    Bind(columns, LAMBDA cs :
        sort(cs, [i \in 1..Len(cs) |-> Finite(cs[i].numericCount)], TRUE))

\* C12 mutant: the columns ranked by negativeCount the other way round
ByNegativeCountAscending(columns) ==
    Bind(columns, LAMBDA cs :
        sort(cs, [i \in 1..Len(cs) |-> Finite(cs[i].negativeCount)], FALSE))

\* .sort((a, b) => b.negativeCount - a.negativeCount)
ByNegativeCount(columns) ==
    Bind(columns, LAMBDA cs :
        sort(cs, [i \in 1..Len(cs) |-> Finite(cs[i].negativeCount)], TRUE))

\* the columns of which more than half the sample is numeric, most numeric first
NumericColumns(columnStats, sampleSize) ==
    ByNumericCount(SelectSeq(columnStats, LAMBDA c : 2 * c.numericCount > sampleSize))

\* the assignment from the columns ranked by their count of negative values
AssignFromRanked(ranked) ==
    [freqIndex |-> NextBestIndex(ranked, ranked[1].index, -1),
     powerIndex |-> ranked[1].index]

AssignByStatistics(numericColumns, freqIndex0, powerIndex0) ==
    IF Len(numericColumns) >= 2
    THEN Bind(ByNegativeCount(numericColumns), LAMBDA ranked : AssignFromRanked(ranked))
    ELSE [freqIndex |-> freqIndex0, powerIndex |-> powerIndex0]

SampleRows(delimiter, dataLines, sampleSize) ==
    [r \in 1..sampleSize |-> Tokenize(delimiter, dataLines[r])]

ResolveFromSample(delimiter, sampleRows, sampleSize, freqIndex0, powerIndex0) ==
    IF sampleSize > 0 /\ Len(sampleRows[1]) >= 2
    THEN Bind(NumericColumns(ColumnStats(delimiter, sampleRows), sampleSize),
              LAMBDA numericColumns :
                  AssignByStatistics(numericColumns, freqIndex0, powerIndex0))
    ELSE [freqIndex |-> freqIndex0, powerIndex |-> powerIndex0]

SampleSize(dataLines) == IF Len(dataLines) < 20 THEN Len(dataLines) ELSE 20

\* the statistical path over at most 20 data rows
ResolveByStatistics(delimiter, dataLines, freqIndex0, powerIndex0) ==
    Bind(SampleRows(delimiter, dataLines, SampleSize(dataLines)), LAMBDA sampleRows :
        ResolveFromSample(delimiter, sampleRows, SampleSize(dataLines),
                          freqIndex0, powerIndex0))

\* interface ParseOptions: an object whose two keys are optional
Has(options, key) == key \in DOMAIN options

\* options[key] ?? orElse
ManualOr(options, key, orElse) == IF Has(options, key) THEN options[key] ELSE orElse

\* the automatic paths, given the ranked header candidates
ResolveAutomatically(delimiter, freqCandidates, powerCandidates, hasHeader, dataLines, freqIndex0, powerIndex0) ==
    IF Len(freqCandidates) > 0 /\ Len(powerCandidates) > 0
    THEN ResolveByHeader(freqCandidates, powerCandidates, freqIndex0, powerIndex0)
    ELSE IF ~hasHeader
    THEN ResolveByStatistics(delimiter, dataLines, freqIndex0, powerIndex0)
    ELSE [freqIndex |-> freqIndex0, powerIndex |-> powerIndex0]

\* C9 mutant: the automatic paths taken whatever the options hold
ResolveColumnsAlwaysAutomatic(delimiter, options, headerValues, hasHeader, dataLines) ==
    Bind(HeaderCandidates(delimiter, headerValues), LAMBDA candidates :
    Bind(FreqCandidates(candidates), LAMBDA freqCandidates :
    Bind(PowerCandidates(candidates), LAMBDA powerCandidates :
        ResolveAutomatically(delimiter, freqCandidates, powerCandidates,
                             hasHeader, dataLines,
                             ManualOr(options, "manualFreqIndex", -1),
                             ManualOr(options, "manualPowerIndex", -1)))))

\* lines 141-210 of part_000 (107-175 of utils/csvParser.ts): the resolved
\* (freqIndex, powerIndex), starting from the manual values or -1
ResolveColumns(delimiter, options, headerValues, hasHeader, dataLines) ==
    IF ~Has(options, "manualFreqIndex") \/ ~Has(options, "manualPowerIndex")
    THEN Bind(HeaderCandidates(delimiter, headerValues), LAMBDA candidates :
         Bind(FreqCandidates(candidates), LAMBDA freqCandidates :
         Bind(PowerCandidates(candidates), LAMBDA powerCandidates :
             ResolveAutomatically(delimiter, freqCandidates, powerCandidates,
                                  hasHeader, dataLines,
                                  ManualOr(options, "manualFreqIndex", -1),
                                  ManualOr(options, "manualPowerIndex", -1)))))
    ELSE [freqIndex |-> options.manualFreqIndex, powerIndex |-> options.manualPowerIndex]

\* C1 mutant: the test without freqIndex === powerIndex
DetectionFailedOnlyMissing(freqIndex, powerIndex) ==
    freqIndex = -1 \/ powerIndex = -1

\* line 212 of part_000 (177 of utils/csvParser.ts): the test that throws
\* the ColumnDetectionError
DetectionFailed(freqIndex, powerIndex) ==
    freqIndex = -1 \/ powerIndex = -1 \/ freqIndex = powerIndex

\* C8 mutant: the sample without its slice
SampleDataUnsliced(delimiter, dataLines) ==
    [i \in 1..Len(dataLines) |-> Tokenize(delimiter, dataLines[i])]

\* dataLines.slice(0, 5).map(line => parseCsvRow(line))
SampleData(delimiter, dataLines) ==
    Bind(slice(dataLines, 0, 5), LAMBDA sample :
        [i \in 1..Len(sample) |-> Tokenize(delimiter, sample[i])])

(***************************************************************************)
(* Row materialisation and statistics.                                     *)
(***************************************************************************)
\* C2 mutant: the loop without its isNaN test
PointOfKeepingNaN(values, frequency, power, freqIndex, powerIndex) ==
    [kept |-> Len(values) > (IF freqIndex > powerIndex THEN freqIndex ELSE powerIndex),
     point |-> [frequency |-> frequency, power |-> power]]

\* the point of a tokenised data line, and whether the loop keeps it
PointOf(values, frequency, power, freqIndex, powerIndex) ==
    [kept |-> Len(values) > (IF freqIndex > powerIndex THEN freqIndex ELSE powerIndex)
              /\ ~isNaN(frequency) /\ ~isNaN(power),
     point |-> [frequency |-> frequency, power |-> power]]

\* one pass of the loop body over a data line: whether the line yields a
\* point, and the point
MaterializeRow(delimiter, line, freqIndex, powerIndex) ==
    Bind(Tokenize(delimiter, line), LAMBDA values :
    Bind(CleanCell(delimiter, at(values, freqIndex)), LAMBDA frequency :
    Bind(CleanCell(delimiter, at(values, powerIndex)), LAMBDA power :
        PointOf(values, frequency, power, freqIndex, powerIndex))))

\* allData and powerSum after a pass of the loop body that yields row
Accumulate(acc, row) ==
    IF row.kept
    THEN [allData |-> Append(acc.allData, row.point),
          powerSum |-> Add(acc.powerSum, row.point.power)]
    ELSE acc

RECURSIVE MaterializeFrom(_, _, _, _, _, _)
\* the loop over dataLines from line i: allData and powerSum as they end
MaterializeFrom(delimiter, dataLines, freqIndex, powerIndex, i, acc) ==
    IF i > Len(dataLines) THEN acc
    ELSE Bind(Accumulate(acc, MaterializeRow(delimiter, dataLines[i],
                                             freqIndex, powerIndex)),
              LAMBDA next :
                  MaterializeFrom(delimiter, dataLines, freqIndex, powerIndex,
                                  i + 1, next))

Materialize(delimiter, dataLines, freqIndex, powerIndex) ==
    MaterializeFrom(delimiter, dataLines, freqIndex, powerIndex, 1,
                    [allData |-> <<>>, powerSum |-> Finite(0)])

\* a / n for a count n > 0, kept as the fraction it is
Divide(a, n) == [num |-> a, den |-> n]

\* part_000: one descending sort by power serves min, max and the peak rows
SortedByPower(allData) ==
    sort(allData, [i \in 1..Len(allData) |-> allData[i].power], TRUE)

\* utils/csvParser.ts: an ascending sort by power, reversed for the peak rows
SortedByPowerFixed(allData) ==
    sort(allData, [i \in 1..Len(allData) |-> allData[i].power], FALSE)

SortedByFreq(allData) ==
    sort(allData, [i \in 1..Len(allData) |-> allData[i].frequency], FALSE)

\* Array.prototype.reverse
reverse(arr) ==
    Bind(arr, LAMBDA seq : [i \in 1..Len(seq) |-> seq[Len(seq) + 1 - i]])

\* C3 mutant: the first element of sortedByPower taken for the maximum and
\* the last for the minimum whichever way the sort went
StatsOfDescendingOnly(sortedByFreq, sortedByPower, ascending, n, powerSum) ==
    [frequency |-> [min |-> sortedByFreq[1].frequency,
                    max |-> sortedByFreq[n].frequency],
     power |-> [min |-> sortedByPower[n].power,
                max |-> sortedByPower[1].power,
                avg |-> Divide(powerSum, n)]]

\* the stats object from the two sorted copies; ascending tells how
\* sortedByPower is ordered
StatsOf(sortedByFreq, sortedByPower, ascending, n, powerSum) ==
    [frequency |-> [min |-> sortedByFreq[1].frequency,
                    max |-> sortedByFreq[n].frequency],
     power |-> [min |-> sortedByPower[IF ascending THEN 1 ELSE n].power,
                max |-> sortedByPower[IF ascending THEN n ELSE 1].power,
                avg |-> Divide(powerSum, n)]]

\* the stats object of the report
Stats(delimiter, allData, powerSum) ==
    Bind(SortedByFreq(allData), LAMBDA sortedByFreq :
    Bind(IF delimiter = FixedSplit THEN SortedByPowerFixed(allData)
         ELSE SortedByPower(allData), LAMBDA sortedByPower :
        StatsOf(sortedByFreq, sortedByPower, delimiter = FixedSplit,
                Len(allData), powerSum)))

\* C4 mutant: the first rows of the sort whichever way it went
PeakPowerRowsUnreversed(delimiter, allData) ==
    IF delimiter = FixedSplit THEN slice(SortedByPowerFixed(allData), 0, 10)
    ELSE slice(SortedByPower(allData), 0, 10)

PeakPowerRows(delimiter, allData) ==
    IF delimiter = FixedSplit THEN slice(reverse(SortedByPowerFixed(allData)), 0, 10)
    ELSE slice(SortedByPower(allData), 0, 10)

\* C13 mutant: the retained points counted for the rows
BuildReportCountingRetained(delimiter, file, dataLines, headerValues, allData, powerSum) ==
    [fileName |-> IF file.isFile THEN file.name ELSE "File Segment",
     rowCount |-> Len(allData),
     columnCount |-> Len(headerValues),
     headers |-> headerValues,
     stats |-> Stats(delimiter, allData, powerSum),
     samples |-> [firstRows |-> slice(allData, 0, 10),
                  lastRows |-> sliceLast(allData, 10),
                  peakPowerRows |-> PeakPowerRows(delimiter, allData)]]

\* a report whose first and last rows are cut from the points sorted by power
BuildReportOfSortedRows(delimiter, file, dataLines, headerValues, allData, powerSum) ==
    [fileName |-> IF file.isFile THEN file.name ELSE "File Segment",
     rowCount |-> Len(dataLines),
     columnCount |-> Len(headerValues),
     headers |-> headerValues,
     stats |-> Stats(delimiter, allData, powerSum),
     samples |-> [firstRows |-> slice(SortedByPower(allData), 0, 10),
                  lastRows |-> sliceLast(SortedByPower(allData), 10),
                  peakPowerRows |-> PeakPowerRows(delimiter, allData)]]

\* lines 259-270 of part_000: the report
BuildReport(delimiter, file, dataLines, headerValues, allData, powerSum) ==
    [fileName |-> IF file.isFile THEN file.name ELSE "File Segment",
     rowCount |-> Len(dataLines),
     columnCount |-> Len(headerValues),
     headers |-> headerValues,
     stats |-> Stats(delimiter, allData, powerSum),
     samples |-> [firstRows |-> slice(allData, 0, 10),
                  lastRows |-> sliceLast(allData, 10),
                  peakPowerRows |-> PeakPowerRows(delimiter, allData)]]

(***************************************************************************)
(* Errors.                                                                 *)
(***************************************************************************)
Error(message) == [name |-> "Error", message |-> message]

ColumnDetectionError(message, headers, sampleData) ==
    [name |-> "ColumnDetectionError", message |-> message,
     headers |-> headers, sampleData |-> sampleData]

TypeError(message) == [name |-> "TypeError", message |-> message]

NoError == [name |-> "none"]

NoReport == [fileName |-> "none"]

MsgEmptyFile == "File is empty or could not be read."

MsgNoLines == "File must contain at least one data row."

MsgNoRelevantLines(delimiter) ==
    IF delimiter = FixedSplit THEN "No valid data rows found after skipping metadata."
    ELSE "No valid data rows found."

MsgDetection == "Could not automatically detect the required columns."

MsgHeaderOnly == "File contains a header but no data rows."

MsgNoValidData ==
    "No valid numerical data found. Please ensure columns are correctly formatted and delimited (e.g., comma, space, tab)."

MsgReadFailed == "Failed to read the file."

MsgReduceEmpty == "Reduce of empty array with no initial value"

(***************************************************************************)
(* The inputs: file contents and options.                                  *)
(***************************************************************************)
\* a header whose cells are keywords
HeaderKeywords ==
    <<"f", "r", "e", "q", ",", "p", "o", "w", "e", "r">>

\* the header of the spec's keyword-scoring case
HeaderUnits ==
    <<"F", "r", "e", "q", "u", "e", "n", "c", "y", " ", "(", "M", "H", "z", ")", ",", "P", "o", "w", "e", "r", " ", "(", "d", "B", "m", ")">>

\* the header of the spec's conflict-resolution case: the first cell holds
\* keywords of both lists
HeaderConflict ==
    <<"S", "i", "g", "n", "a", "l", "_", "P", "o", "w", "e", "r", "_", "M", "H", "z", ",", "L", "e", "v", "e", "l">>

\* a header without any keyword
HeaderPlain ==
    <<"a", ",", "b">>

\* a line of preamble
Banner ==
    <<"#", " ", "c", "a", "p", "t", "u", "r", "e">>

RowGood ==
    <<"1", "0", "0", ",", "-", "5", "0">>

RowDecimal ==
    <<"1", "0", "1", ".", "5", ",", "-", "4", "8", ".", "2">>

\* non-numeric garbage in the power column
RowGarbledPower ==
    <<"1", "0", "2", ",", "a", "b", "c">>

\* a decimal literal beyond the largest double
RowOverflow ==
    <<"1", "e", "9", "9", "9", ",", "-", "6", "0">>

\* two text cells
RowText ==
    <<"x", ",", "y">>

\* three cells
RowWide ==
    <<"1", "0", "3", ",", "7", ",", "-", "4", "5">>

RowLines == <<RowGood, RowDecimal, RowGarbledPower, RowOverflow, RowText, RowWide>>

Preambles == {<<>>, <<HeaderKeywords>>, <<HeaderUnits>>, <<HeaderPlain>>,
              <<Banner>>, <<Banner, HeaderKeywords>>}

\* n rows of RowLines: row r0 first, then every stride-th row, cyclically
MixedRows(r0, stride, n) ==
    [i \in 1..n |-> RowLines[((r0 - 1 + (i - 1) * stride) % Len(RowLines)) + 1]]

\* rows of a mixed capture
MaxMixedRows == 3

\* row i of a long capture: rising frequency, power cycling over five levels,
\* and with garble > 0 every garble-th row carries garbage for its power
GeneratedRow(i, step, garble) ==
    toString(2400 + i) \o <<",">> \o
        (IF garble > 0 /\ i % garble = 2 THEN <<"a", "b", "c">>
         ELSE <<"-">> \o toString(40 + ((i * step) % 5)))

GeneratedRows(n, step, garble) == [i \in 1..n |-> GeneratedRow(i, step, garble)]

\* row i of a headerless capture of three columns: the second is negative
\* in rows 1..10 and from row 21 on, the third in rows 1..11
ThreeColumnRow(i) ==
    toString(2400 + i) \o <<",">> \o
        (IF i <= 10 \/ i > 20 THEN <<"-", "5">> ELSE <<"5">>) \o <<",">> \o
        (IF i <= 11 THEN <<"-", "6">> ELSE <<"6">>)

\* more rows than the statistical path samples
ThreeColumnRows == [i \in 1..23 |-> ThreeColumnRow(i)]

RECURSIVE JoinLines(_, _)
\* the lines, each ended by the line terminator
JoinLines(ls, terminator) ==
    IF ls = <<>> THEN <<>>
    ELSE Head(ls) \o terminator \o JoinLines(Tail(ls), terminator)

MixedTexts ==
    {JoinLines(pre \o MixedRows(r0, stride, n), <<LF>>) :
        pre \in Preambles, r0 \in 1..Len(RowLines), stride \in {0, 1, 5},
        n \in 0..MaxMixedRows}

LongTexts ==
    {JoinLines(pre \o GeneratedRows(n, step, garble), <<LF>>) :
        pre \in {<<>>, <<HeaderKeywords>>, <<HeaderPlain>>}, n \in 1..MaxRows,
        step \in {1, 3}, garble \in {0, 4}}

\* an empty file, a blank file, a single cell, CR LF line ends, a leading
\* tab, and captures delimited by white space, semicolons and tabs
SpecialTexts ==
    {<<>>, <<SP, LF>>, <<"x">>,
     JoinLines(<<HeaderKeywords, RowGood, RowDecimal>>, <<CR, LF>>),
     JoinLines(<<HeaderConflict, RowGood, RowDecimal>>, <<LF>>),
     JoinLines(ThreeColumnRows, <<LF>>),
     JoinLines(<<HeaderKeywords, <<>>, RowGood, <<SP>>, RowDecimal, RowGood>>, <<LF>>),
     <<TAB>> \o JoinLines(<<RowGood, <<>>, RowDecimal>>, <<LF>>),
     <<"1", "0", "0", " ", "-", "5", "0", "\n", "1", "0", "1", " ", "-", "5", "1", "\n">>,
     <<"f", "r", "e", "q", ";", "p", "o", "w", "e", "r", "\n", "1", "0", "0", ";", "-", "5", "0", "\n">>,
     <<"1", "0", "0", "\t", "-", "5", "0", "\n", "1", "0", "1", "\t", "-", "5", "1", "\n">>}

\* a header whose first cell holds every frequency keyword and whose second
\* cell is the keyword freq
HeaderEveryKeyword ==
    <<"f", "(", "m", "h", "z", ")", "k", "h", "z", "g", "h", "z", "h", "e", "r", "t", "z", "c", "h", "a", "n", "n", "e", "l", "b", "a", "n", "d", "f", "r", "e", "q", ".", "f", "r", "e", "q", "u", "e", "n", "c", "y", ",", "f", "r", "e", "q", ",", "p", "o", "w", "e", "r">>

\* a headerless capture whose cells carry unit suffixes
UnitSuffixRows ==
    <<"1", "0", "0", "M", "H", "z", ",", "-", "5", "0", "d", "B", "m", "\n", "1", "0", "1", "M", "H", "z", ",", "-", "5", "1", "d", "B", "m", "\n">>

\* a text of fifty lines "x y", then three lines "x,y"
FiftyThenComma ==
    [k \in 1..212 |->
        LET i == ((k - 1) \div 4) + 1
            c == (k - 1) % 4
        IN  IF c = 0 THEN "x"
            ELSE IF c = 1 THEN (IF i <= 50 THEN SP ELSE ",")
            ELSE IF c = 2 THEN "y"
            ELSE LF]

\* samples for detectDelimiter: commas with spaces and semicolons as
\* consistent, a semicolon in three lines of seven, comma counts of two and
\* three, a comma less consistent than the semicolon, and more lines than
\* are sampled
DelimiterTexts ==
    {<<"1", "0", "0", ",", " ", "-", "5", "0", ";", "x", "\n", "1", "0", "1", ",", " ", "-", "5", "1", ";", "y", "\n">>,
     <<"1", "0", "0", " ", "-", "5", "0", ";", "a", "\n", "1", "0", "1", " ", "-", "5", "1", ";", "b", "\n", "1", "0", "2", " ", "-", "5", "2", ";", "c", "\n", "1", "0", "3", " ", "-", "5", "3", "\n", "1", "0", "4", " ", "-", "5", "4", "\n", "1", "0", "5", " ", "-", "5", "5", "\n", "1", "0", "6", " ", "-", "5", "6", "\n">>,
     <<"a", ",", "b", "\n", "1", ",", "2", ",", "3", "\n">>,
     <<"1", ",", "2", ";", "x", "\n", "3", ",", "4", ";", "y", "\n", "5", ",", "6", ",", "7", ";", "z", "\n">>,
     JoinLines(<<HeaderEveryKeyword, <<"1", "0", "0", ",", "5", ",", "-", "5", "0">>>>, <<LF>>),
     FiftyThenComma}

NoOptions == << >>

Manual(f, p) == [manualFreqIndex |-> f, manualPowerIndex |-> p]

OnlyFreq(f) == [manualFreqIndex |-> f]

OnlyPower(p) == [manualPowerIndex |-> p]

File(text) == [isFile |-> TRUE, name |-> "capture.csv", text |-> text]

Blob(text) == [isFile |-> FALSE, name |-> "", text |-> text]

\* the calls of parseAndAnalyzeCsv the model makes
Invocations ==
    {[file |-> File(t), options |-> o] :
        t \in MixedTexts,
        o \in {NoOptions, Manual(0, 1), Manual(1, 0), Manual(0, 0), Manual(0, 2), Manual(1, -1),
               OnlyFreq(0), OnlyPower(0)}}
    \cup {[file |-> Blob(t), options |-> o] :
            t \in LongTexts, o \in {NoOptions, Manual(0, 1)}}
    \cup {[file |-> File(t), options |-> NoOptions] :
            t \in SpecialTexts \cup DelimiterTexts \cup {UnitSuffixRows}}
    \cup {[file |-> File(JoinLines(<<HeaderConflict, RowGood, RowDecimal>>, <<LF>>)),
           options |-> o] : o \in {OnlyFreq(1), OnlyPower(1)}}

(***************************************************************************)
(* reader.onload as one run: the handler is synchronous, so from the text  *)
(* to resolve or reject nothing else happens.  An outcome is what the      *)
(* promise is settled with.                                                *)
(***************************************************************************)
\* resolve(report)
Fulfilled(value) == [promise |-> "fulfilled", report |-> value, error |-> NoError]

\* reject(error)
Rejected(reason) == [promise |-> "rejected", report |-> NoReport, error |-> reason]

\* lines 238-272 of part_000
onloadStatistics(delimiter, file, dataLines, headerValues, done) ==
    IF Len(done.allData) = 0 THEN Rejected(Error(MsgNoValidData))
    ELSE Fulfilled(BuildReport(delimiter, file, dataLines, headerValues,
                               done.allData, done.powerSum))

\* lines 212-236 of part_000
onloadRows(delimiter, file, dataLines, headerValues, resolved) ==
    IF DetectionFailed(resolved.freqIndex, resolved.powerIndex)
    THEN Rejected(ColumnDetectionError(MsgDetection, headerValues,
                                       SampleData(delimiter, dataLines)))
    ELSE IF Len(dataLines) = 0 THEN Rejected(Error(MsgHeaderOnly))
    ELSE Bind(Materialize(delimiter, dataLines, resolved.freqIndex, resolved.powerIndex),
              LAMBDA done :
                  onloadStatistics(delimiter, file, dataLines, headerValues, done))

\* lines 141-210 of part_000
onloadColumns(delimiter, file, options, headerValues, hasHeader, dataLines) ==
    Bind(ResolveColumns(delimiter, options, headerValues, hasHeader, dataLines),
         LAMBDA resolved : onloadRows(delimiter, file, dataLines, headerValues, resolved))

\* lines 124-139 of part_000
onloadHeader(delimiter, file, options, relevantLines) ==
    IF Len(relevantLines) < 1 THEN Rejected(Error(MsgNoRelevantLines(delimiter)))
    ELSE Bind(Tokenize(delimiter, relevantLines[1]), LAMBDA firstLineValues :
         Bind(HasHeader(delimiter, firstLineValues), LAMBDA header :
             onloadColumns(delimiter, file, options,
                           IF header THEN firstLineValues
                           ELSE SyntheticHeaders(Len(firstLineValues)),
                           header,
                           IF header THEN Tail(relevantLines) ELSE relevantLines)))

\* lines 69-122 of part_000
onloadLines(variant, file, options, lines) ==
    IF Len(lines) < 1 THEN Rejected(Error(MsgNoLines))
    ELSE Bind(IF variant = "fixed" THEN FixedSplit
              ELSE detectDelimiter(slice(lines, 0, 50)), LAMBDA delimiter :
             IF delimiter = TypeErrorThrown THEN Rejected(TypeError(MsgReduceEmpty))
             ELSE onloadHeader(delimiter, file, options,
                               slice(lines, LocateDataStart(delimiter, lines),
                                     Len(lines))))

\* reader.onload: lines 61-282 of part_000
onload(variant, file, options) ==
    IF file.text = <<>> THEN Rejected(Error(MsgEmptyFile))
    ELSE Bind(SplitLines(file.text), LAMBDA lines :
             onloadLines(variant, file, options, lines))

\* reader.onerror
onerror == Rejected(Error(MsgReadFailed))

\* the calls made while another invocation is in flight: a keyword header, a
\* segment of a file, a header without keywords with and without manual
\* indices, the header that splits differently in the two variants, a
\* single cell and an empty file
ConcurrentCalls ==
    {[file |-> File(JoinLines(<<HeaderKeywords, RowGood, RowDecimal>>, <<LF>>)),
      options |-> NoOptions],
     [file |-> Blob(JoinLines(<<HeaderKeywords>> \o GeneratedRows(2, 1, 0), <<LF>>)),
      options |-> NoOptions],
     [file |-> File(JoinLines(<<HeaderPlain, RowGood>>, <<LF>>)), options |-> NoOptions],
     [file |-> File(JoinLines(<<HeaderPlain, RowGood>>, <<LF>>)), options |-> Manual(0, 1)],
     [file |-> File(JoinLines(<<HeaderUnits, RowGood>>, <<LF>>)), options |-> NoOptions],
     [file |-> File(<<"x">>), options |-> NoOptions],
     [file |-> File(<<>>), options |-> NoOptions]}

(***************************************************************************)
(* The state of one deployment of the parser and of the invocation in      *)
(* flight.  pc is the stage of the spec's per-invocation state machine.    *)
(***************************************************************************)
VARIABLES
    variant,        \* "adaptive" (part_000) or "fixed" (utils/csvParser.ts)
    pc,             \* the stage the invocation is at
    file,           \* the File or Blob handed to parseAndAnalyzeCsv
    options,        \* the ParseOptions handed to parseAndAnalyzeCsv
    promise,        \* "none", "pending", "fulfilled", "rejected"
    settles,        \* calls of resolve or reject in this invocation
    lines,          \* the non-blank lines
    delimiter,      \* the detected delimiter (FixedSplit in the fixed variant)
    headerValues,
    hasHeader,
    dataLines,
    freqIndex,
    powerIndex,
    allData,
    powerSum,
    report,         \* the value the promise is resolved with
    error,          \* the value the promise is rejected with
    flights,        \* invocations in flight at once: each one's own closure
    uploadedFile,   \* FileUpload: the prop uploadedFile (a size, or null)
    isLargeFile,    \* FileUpload: the state isLargeFile
    effectPending,  \* FileUpload: the effect on [uploadedFile] is yet to run
    analysisReport, \* FileUpload: the prop analysisReport is set
    analysisError,  \* FileUpload: the prop analysisError is set
    lastRun,        \* FileUpload: the argument of the last onRunFileAnalysis
    mode,           \* App: 'generate' or 'analyze'
    isLoading,      \* App: the state isLoading
    running,        \* App: the runs of handleRunAnalysis awaiting their result
    history,        \* App: the state history, newest first
    added,          \* App: the history items made so far
    analysisResult, \* App: the state analysisResult
    selectedFile,   \* App: the state uploadedFile (a file by number, or 0)
    selections,     \* App: the files selected so far
    parses,         \* App: the files whose parseAndAnalyzeCsv is awaited
    fileAnalysisReport, \* App: the file the stored report is of, or 0
    fileAnalysisError   \* App: the file the stored error is of, or 0

\* one invocation of parseAndAnalyzeCsv followed stage by stage
parser == <<pc, file, options, promise, settles, lines, delimiter,
            headerValues, hasHeader, dataLines, freqIndex, powerIndex, allData,
            powerSum, report, error>>

\* the FileUpload component and the props its parent hands it
upload == <<uploadedFile, isLargeFile, effectPending, analysisReport,
            analysisError, lastRun>>

\* the App component
app == <<mode, isLoading, running, history, added, analysisResult, selectedFile,
         selections, parses, fileAnalysisReport, fileAnalysisError>>

vars == <<variant, parser, flights, upload, app>>

\* invocations that can be in flight at once
MaxFlights == 2

Flights == 1..MaxFlights

\* no invocation: nothing captured, no promise
NoFlight ==
    [phase |-> "none", file |-> File(<<>>), options |-> NoOptions,
     promise |-> "none", report |-> NoReport, error |-> NoError]

\* uploadedFile: File | null, a File being known by its size
null == [present |-> FALSE, size |-> 0]

\* onRunFileAnalysis has not been called
NoRun == [called |-> FALSE, size |-> 0, segment |-> "none", start |-> 0, end |-> 0]

locals == <<lines, delimiter, headerValues, hasHeader, dataLines, freqIndex,
            powerIndex, allData, powerSum>>

Init ==
    /\ variant \in {"adaptive", "fixed"}
    /\ pc = "Idle"
    /\ file = File(<<>>)
    /\ options = NoOptions
    /\ promise = "none"
    /\ settles = 0
    /\ lines = <<>>
    /\ delimiter = SP
    /\ headerValues = <<>>
    /\ hasHeader = FALSE
    /\ dataLines = <<>>
    /\ freqIndex = -1
    /\ powerIndex = -1
    /\ allData = <<>>
    /\ powerSum = Finite(0)
    /\ report = NoReport
    /\ error = NoError
    /\ flights = [i \in Flights |-> NoFlight]
    /\ uploadedFile = null
    /\ isLargeFile = FALSE
    /\ effectPending = FALSE
    /\ analysisReport = FALSE
    /\ analysisError = FALSE
    /\ lastRun = NoRun
    /\ mode = "generate"
    /\ isLoading = FALSE
    /\ running = <<>>
    /\ history = <<>>
    /\ added = 0
    /\ analysisResult = "null"
    /\ selectedFile = 0
    /\ selections = 0
    /\ parses = {}
    /\ fileAnalysisReport = 0
    /\ fileAnalysisError = 0

\* new Promise(...); new FileReader(); reader.readAsText(file)
Invoke ==
    /\ pc = "Idle"
    /\ \E call \in Invocations :
        /\ file' = call.file
        /\ options' = call.options
    /\ pc' = "ReadingText"
    /\ promise' = "pending"
    /\ UNCHANGED <<variant, settles, report, error>>
    /\ UNCHANGED locals
    /\ UNCHANGED <<flights, upload, app>>

\* C7 mutant: a catch block that keeps the error to itself
RejectSwallowed(err) ==
    /\ pc' = "Failed"
    /\ UNCHANGED <<promise, error, settles>>
    /\ UNCHANGED <<variant, file, options, report>>
    /\ UNCHANGED <<flights, upload, app>>

\* the catch block: reject(error); a pending promise takes the rejection
Reject(err) ==
    /\ pc' = "Failed"
    /\ promise' = (IF promise = "pending" THEN "rejected" ELSE promise)
    /\ error' = (IF promise = "pending" THEN err ELSE error)
    /\ settles' = settles + 1
    /\ UNCHANGED <<variant, file, options, report>>
    /\ UNCHANGED <<flights, upload, app>>

\* the stage went through: on to the next one
Proceed(next) ==
    /\ pc' = next
    /\ UNCHANGED <<variant, file, options, promise, settles, report, error>>
    /\ UNCHANGED <<flights, upload, app>>

\* reader.onerror
ReadFailed ==
    /\ pc = "ReadingText"
    /\ Reject(Error(MsgReadFailed))
    /\ UNCHANGED locals

\* reader.onload, to the split into non-blank lines
ReadCompleted ==
    /\ pc = "ReadingText"
    /\ IF file.text = <<>>
       THEN Reject(Error(MsgEmptyFile)) /\ UNCHANGED locals
       ELSE /\ Proceed("LineSplitting")
            /\ UNCHANGED locals

LineSplitting ==
    /\ pc = "LineSplitting"
    /\ \E nonBlank \in {SplitLines(file.text)} :
           IF Len(nonBlank) < 1
           THEN Reject(Error(MsgNoLines)) /\ UNCHANGED locals
           ELSE /\ Proceed("DelimiterDetection")
                /\ lines' = nonBlank
                /\ UNCHANGED <<delimiter, headerValues, hasHeader, dataLines,
                               freqIndex, powerIndex, allData, powerSum>>

DelimiterDetection ==
    /\ pc = "DelimiterDetection"
    /\ \E detected \in {IF variant = "fixed" THEN FixedSplit
                        ELSE detectDelimiter(slice(lines, 0, 50))} :
           IF detected = TypeErrorThrown
           THEN Reject(TypeError(MsgReduceEmpty)) /\ UNCHANGED locals
           ELSE /\ Proceed("DataStartLocation")
                /\ delimiter' = detected
                /\ UNCHANGED <<lines, headerValues, hasHeader, dataLines,
                               freqIndex, powerIndex, allData, powerSum>>

\* lines 102-127 of part_000: the indices start from the options, and the
\* lines before the data start are dropped
DataStartLocation ==
    /\ pc = "DataStartLocation"
    /\ \E relevantLines \in {slice(lines, LocateDataStart(delimiter, lines), Len(lines))} :
           IF Len(relevantLines) < 1
           THEN Reject(Error(MsgNoRelevantLines(delimiter))) /\ UNCHANGED locals
           ELSE /\ Proceed("HeaderClassification")
                /\ lines' = relevantLines
                /\ freqIndex' = ManualOr(options, "manualFreqIndex", -1)
                /\ powerIndex' = ManualOr(options, "manualPowerIndex", -1)
                /\ UNCHANGED <<delimiter, headerValues, hasHeader, dataLines,
                               allData, powerSum>>

HeaderClassification ==
    /\ pc = "HeaderClassification"
    /\ \E firstLineValues \in {Tokenize(delimiter, lines[1])} :
       \E header \in {HasHeader(delimiter, firstLineValues)} :
           /\ hasHeader' = header
           /\ headerValues' = (IF header THEN firstLineValues
                               ELSE SyntheticHeaders(Len(firstLineValues)))
           /\ dataLines' = (IF header THEN Tail(lines) ELSE lines)
    /\ Proceed("ColumnResolution")
    /\ UNCHANGED <<lines, delimiter, freqIndex, powerIndex, allData, powerSum>>

\* lines 141-216 of part_000
ColumnResolution ==
    /\ pc = "ColumnResolution"
    /\ \E resolved \in {ResolveColumns(delimiter, options, headerValues, hasHeader,
                                       dataLines)} :
           /\ freqIndex' = resolved.freqIndex
           /\ powerIndex' = resolved.powerIndex
           /\ IF DetectionFailed(resolved.freqIndex, resolved.powerIndex)
              THEN Reject(ColumnDetectionError(MsgDetection, headerValues,
                                               SampleData(delimiter, dataLines)))
              ELSE Proceed("RowMaterialization")
    /\ UNCHANGED <<lines, delimiter, headerValues, hasHeader, dataLines, allData,
                   powerSum>>

\* lines 218-240 of part_000
RowMaterialization ==
    /\ pc = "RowMaterialization"
    /\ IF Len(dataLines) = 0
       THEN Reject(Error(MsgHeaderOnly)) /\ UNCHANGED locals
       ELSE \E done \in {Materialize(delimiter, dataLines, freqIndex, powerIndex)} :
                /\ allData' = done.allData
                /\ powerSum' = done.powerSum
                /\ IF Len(done.allData) = 0
                   THEN Reject(Error(MsgNoValidData))
                   ELSE Proceed("StatisticsAssembly")
                /\ UNCHANGED <<lines, delimiter, headerValues, hasHeader,
                               dataLines, freqIndex, powerIndex>>

\* lines 242-272 of part_000: the report, and resolve(report)
StatisticsAssembly ==
    /\ pc = "StatisticsAssembly"
    /\ pc' = "Done"
    /\ report' = (IF promise = "pending"
                  THEN BuildReport(delimiter, file, dataLines, headerValues,
                                   allData, powerSum)
                  ELSE report)
    /\ promise' = (IF promise = "pending" THEN "fulfilled" ELSE promise)
    /\ settles' = settles + 1
    /\ UNCHANGED <<variant, file, options, error>>
    /\ UNCHANGED locals
    /\ UNCHANGED <<flights, upload, app>>

\* the caller has taken the settled promise's outcome: the promise and the
\* handler's closure are gone, and the parser can be invoked again
Deliver ==
    /\ pc \in {"Done", "Failed"}
    /\ pc' = "Idle"
    /\ file' = File(<<>>)
    /\ options' = NoOptions
    /\ promise' = "none"
    /\ settles' = 0
    /\ lines' = <<>>
    /\ delimiter' = SP
    /\ headerValues' = <<>>
    /\ hasHeader' = FALSE
    /\ dataLines' = <<>>
    /\ freqIndex' = -1
    /\ powerIndex' = -1
    /\ allData' = <<>>
    /\ powerSum' = Finite(0)
    /\ report' = NoReport
    /\ error' = NoError
    /\ UNCHANGED variant
    /\ UNCHANGED <<flights, upload, app>>

Next ==
    \/ Invoke
    \/ ReadFailed
    \/ ReadCompleted
    \/ LineSplitting
    \/ DelimiterDetection
    \/ DataStartLocation
    \/ HeaderClassification
    \/ ColumnResolution
    \/ RowMaterialization
    \/ StatisticsAssembly
    \/ Deliver

Spec == Init /\ [][Next]_vars

\* The reader signals load or error for every read it was asked for, and the
\* onload handler is one synchronous run through the stages: each stage that
\* is reached is taken.  Nothing obliges the caller to invoke the parser or
\* to take up an outcome.
Stage ==
    \/ LineSplitting
    \/ DelimiterDetection
    \/ DataStartLocation
    \/ HeaderClassification
    \/ ColumnResolution
    \/ RowMaterialization
    \/ StatisticsAssembly

FairSpec ==
    /\ Spec
    /\ WF_vars(ReadFailed \/ ReadCompleted)
    /\ WF_vars(Stage)

(***************************************************************************)
(* Invocations in flight at once.  Every call of parseAndAnalyzeCsv makes  *)
(* its own Promise and its own FileReader, and the handlers close over the *)
(* call's own file and options; a handler runs to its end before another   *)
(* event is taken.                                                         *)
(***************************************************************************)
\* C14 mutant: something of the invocation itself finds its way into the parse
CapturedNamedByFlight(i) ==
    [file |-> [flights[i].file EXCEPT !.name = IF i = 1 THEN @ ELSE "capture.csv (2)"],
     options |-> flights[i].options]

\* the file and the options the handlers of invocation i close over
Captured(i) == [file |-> flights[i].file, options |-> flights[i].options]

\* parseAndAnalyzeCsv(file, options): the promise is pending, the read is on
Call(i) ==
    /\ flights[i].phase = "none"
    /\ \E call \in ConcurrentCalls :
           flights' = [flights EXCEPT ![i] =
                          [phase |-> "reading", file |-> call.file,
                           options |-> call.options, promise |-> "pending",
                           report |-> NoReport, error |-> NoError]]
    /\ UNCHANGED <<variant, parser, upload, app>>

\* C15 mutant: one resolve and one reject for whatever is pending
SettleEveryPending(i, outcome) ==
    flights' = [j \in Flights |->
                   IF j = i \/ flights[j].phase = "reading"
                   THEN [flights[j] EXCEPT !.phase = "settled",
                                           !.promise = outcome.promise,
                                           !.report = outcome.report,
                                           !.error = outcome.error]
                   ELSE flights[j]]

\* resolve or reject of invocation i
Settle(i, outcome) ==
    flights' = [flights EXCEPT ![i] =
                   [@ EXCEPT !.phase = "settled", !.promise = outcome.promise,
                             !.report = outcome.report, !.error = outcome.error]]

\* the reader of invocation i fires load
OnLoad(i) ==
    /\ flights[i].phase = "reading"
    /\ \E outcome \in {onload(variant, Captured(i).file, Captured(i).options)} :
           Settle(i, outcome)
    /\ UNCHANGED <<variant, parser, upload, app>>

\* the reader of invocation i fires error
OnError(i) ==
    /\ flights[i].phase = "reading"
    /\ Settle(i, onerror)
    /\ UNCHANGED <<variant, parser, upload, app>>

\* the caller has taken the outcome of invocation i
Collect(i) ==
    /\ flights[i].phase = "settled"
    /\ flights' = [flights EXCEPT ![i] = NoFlight]
    /\ UNCHANGED <<variant, parser, upload, app>>

ReentrantNext ==
    \/ \E i \in Flights : Call(i)
    \/ \E i \in Flights : OnLoad(i)
    \/ \E i \in Flights : OnError(i)
    \/ \E i \in Flights : Collect(i)

ReentrantSpec == Init /\ [][ReentrantNext]_vars

(***************************************************************************)
(* The FileUpload component.  Sizes are counted in units of which the      *)
(* limit MAX_FILE_SIZE_BYTES is an even number.  An event is taken once    *)
(* the effects of the last render have run.                                *)
(***************************************************************************)
\* half the limit, in units
HalfMaxFileSize == 2

MAX_FILE_SIZE_BYTES == 2 * HalfMaxFileSize

\* the largest file that is selected, in units
MaxUploadSize == 10

FileOfSize(size) == [present |-> TRUE, size |-> size]

Max(a, b) == IF a > b THEN a ELSE b

Min(a, b) == IF a < b THEN a ELSE b

\* renderContent: the panel that is shown
ErrorPanel == analysisError

ReportPanel == ~analysisError /\ analysisReport

LargeFilePanel ==
    ~analysisError /\ ~analysisReport /\ uploadedFile.present /\ isLargeFile

DropZone == ~ErrorPanel /\ ~ReportPanel /\ ~LargeFilePanel

\* the parent's onFileChange: the file is kept and the last analysis is
\* dropped; the component renders again and its effect is due
onFileChange(selected) ==
    /\ uploadedFile' = selected
    /\ analysisReport' = FALSE
    /\ analysisError' = FALSE
    /\ lastRun' = NoRun
    /\ effectPending' = (selected.present \/ uploadedFile.present)
    /\ UNCHANGED isLargeFile

\* onRunFileAnalysis(file): the call and its argument
onRunFileAnalysis(size, segment, start, end) ==
    lastRun' = [called |-> TRUE, size |-> size, segment |-> segment,
                start |-> start, end |-> end]

\* Blob.slice(start, end) of a blob of this size: the size of the slice
sliceSize(size, start, end) == Max(0, Min(end, size) - Min(start, size))

\* handleFileChangeInternal and handleDrop: a file is chosen or dropped
SelectFile ==
    /\ ~effectPending
    /\ DropZone
    /\ \E size \in 0..MaxUploadSize : onFileChange(FileOfSize(size))
    /\ UNCHANGED <<variant, parser, flights, app>>

\* handleClearFile
ClearFile ==
    /\ ~effectPending
    /\ ErrorPanel \/ ReportPanel \/ LargeFilePanel
    /\ onFileChange(null)
    /\ UNCHANGED <<variant, parser, flights, app>>

\* the effect on [uploadedFile]: isLargeFile is read as the render had it,
\* whatever setIsLargeFile was just given
Effect ==
    /\ effectPending
    /\ effectPending' = FALSE
    /\ IF uploadedFile.present
       THEN /\ isLargeFile' = (uploadedFile.size > MAX_FILE_SIZE_BYTES)
            /\ IF ~isLargeFile
               THEN onRunFileAnalysis(uploadedFile.size, "whole", 0, uploadedFile.size)
               ELSE UNCHANGED lastRun
       ELSE /\ isLargeFile' = FALSE
            /\ UNCHANGED lastRun
    /\ UNCHANGED <<uploadedFile, analysisReport, analysisError>>
    /\ UNCHANGED <<variant, parser, flights, app>>

\* the slice of handleAnalyzeSegment
SegmentStart(segment, size) ==
    IF segment = "middle" THEN Max(0, (size \div 2) - HalfMaxFileSize)
    ELSE IF segment = "end" THEN Max(0, size - MAX_FILE_SIZE_BYTES)
    ELSE 0

SegmentEnd(segment, size) ==
    IF segment = "middle" THEN SegmentStart(segment, size) + MAX_FILE_SIZE_BYTES
    ELSE IF segment = "end" THEN size
    ELSE MAX_FILE_SIZE_BYTES

\* handleAnalyzeSegment, from a button of the large-file panel
handleAnalyzeSegment ==
    /\ ~effectPending
    /\ LargeFilePanel
    /\ \E segment \in {"start", "middle", "end"} :
           onRunFileAnalysis(sliceSize(uploadedFile.size,
                                       SegmentStart(segment, uploadedFile.size),
                                       SegmentEnd(segment, uploadedFile.size)),
                             segment,
                             SegmentStart(segment, uploadedFile.size),
                             SegmentEnd(segment, uploadedFile.size))
    /\ UNCHANGED <<uploadedFile, isLargeFile, effectPending, analysisReport, analysisError>>
    /\ UNCHANGED <<variant, parser, flights, app>>

\* the parent hands down the report or the error of the analysis it ran
AnalysisSettles ==
    /\ ~effectPending
    /\ lastRun.called
    /\ ~analysisReport /\ ~analysisError
    /\ \/ analysisReport' = TRUE /\ UNCHANGED analysisError
       \/ analysisError' = TRUE /\ UNCHANGED analysisReport
    /\ UNCHANGED <<uploadedFile, isLargeFile, effectPending, lastRun>>
    /\ UNCHANGED <<variant, parser, flights, app>>

UploadNext ==
    \/ SelectFile
    \/ ClearFile
    \/ Effect
    \/ handleAnalyzeSegment
    \/ AnalysisSettles

UploadSpec == Init /\ [][UploadNext]_vars

(***************************************************************************)
(* The App component: the session history and the pre-analysis of the      *)
(* uploaded file.  A history item is the number of its run and the mode    *)
(* of its parameters; a file is the number of its selection, 0 is null.    *)
(***************************************************************************)
\* history items that are made
MaxAdded == 52

\* runs of handleRunAnalysis awaiting their result at once
MaxRunning == 2

\* files that are selected
MaxSelections == 3

\* an update that keeps every earlier item
WithNewItemUncut(prevHistory, newHistoryItem) == <<newHistoryItem>> \o prevHistory

\* prevHistory => [newHistoryItem, ...prevHistory.slice(0, 49)]
WithNewItem(prevHistory, newHistoryItem) ==
    <<newHistoryItem>> \o slice(prevHistory, 0, 49)

\* the effect on [mode], for a mode that has changed: in 'generate' the
\* file and its pre-analysis are dropped
ModeEffect(newMode) ==
    IF newMode # mode /\ newMode = "generate"
    THEN selectedFile' = 0 /\ fileAnalysisReport' = 0 /\ fileAnalysisError' = 0
    ELSE UNCHANGED <<selectedFile, fileAnalysisReport, fileAnalysisError>>

\* onModeChange={setMode}
setMode ==
    /\ \E newMode \in {"generate", "analyze"} :
           /\ newMode # mode
           /\ mode' = newMode
           /\ ModeEffect(newMode)
    /\ UNCHANGED <<isLoading, running, history, added, analysisResult, selections, parses>>
    /\ UNCHANGED <<variant, parser, flights, upload>>

\* handleRunAnalysis up to its await: the button is enabled
handleRunAnalysis ==
    /\ ~isLoading
    /\ mode = "analyze" => fileAnalysisReport # 0
    /\ Len(running) < MaxRunning
    /\ isLoading' = TRUE
    /\ analysisResult' = "null"
    /\ running' = Append(running, mode)
    /\ UNCHANGED <<mode, history, added, selectedFile, selections, parses,
                   fileAnalysisReport, fileAnalysisError>>
    /\ UNCHANGED <<variant, parser, flights, upload>>

\* the sequence without its k-th element
Without(seq, k) == SubSeq(seq, 1, k - 1) \o SubSeq(seq, k + 1, Len(seq))

\* handleRunAnalysis after its await, for a scenario that is no error
ScenarioGenerated ==
    /\ added < MaxAdded
    /\ \E k \in 1..Len(running) :
           /\ history' = WithNewItem(history, [id |-> added + 1, mode |-> running[k]])
           /\ running' = Without(running, k)
    /\ added' = added + 1
    /\ analysisResult' = "scenario"
    /\ isLoading' = FALSE
    /\ UNCHANGED <<mode, selectedFile, selections, parses, fileAnalysisReport,
                   fileAnalysisError>>
    /\ UNCHANGED <<variant, parser, flights, upload>>

\* handleRunAnalysis after its await, for a scenario that starts '**Error:'
ScenarioFailed ==
    /\ \E k \in 1..Len(running) : running' = Without(running, k)
    /\ analysisResult' = "error"
    /\ isLoading' = FALSE
    /\ UNCHANGED <<mode, history, added, selectedFile, selections, parses,
                   fileAnalysisReport, fileAnalysisError>>
    /\ UNCHANGED <<variant, parser, flights, upload>>

\* handleHistorySelect(item), for an item of the history panel
handleHistorySelect ==
    /\ \E k \in 1..Len(history) :
           /\ mode' = history[k].mode
           /\ ModeEffect(history[k].mode)
    /\ analysisResult' = "scenario"
    /\ UNCHANGED <<isLoading, running, history, added, selections, parses>>
    /\ UNCHANGED <<variant, parser, flights, upload>>

\* handleClearHistory
handleClearHistory ==
    /\ history' = <<>>
    /\ UNCHANGED <<mode, isLoading, running, added, analysisResult, selectedFile,
                   selections, parses, fileAnalysisReport, fileAnalysisError>>
    /\ UNCHANGED <<variant, parser, flights, upload>>

\* handleRefresh
handleRefresh ==
    /\ analysisResult' = "null"
    /\ isLoading' = FALSE
    /\ mode' = "generate"
    /\ selectedFile' = 0
    /\ fileAnalysisReport' = 0
    /\ fileAnalysisError' = 0
    /\ UNCHANGED <<running, history, added, selections, parses>>
    /\ UNCHANGED <<variant, parser, flights, upload>>

\* handleFileChange(file) up to its await, for a new file or for null
handleFileChange ==
    /\ mode = "analyze"
    /\ \/ /\ selections < MaxSelections
          /\ selections' = selections + 1
          /\ selectedFile' = selections + 1
          /\ parses' = parses \cup {selections + 1}
       \/ /\ selectedFile' = 0
          /\ UNCHANGED <<selections, parses>>
    /\ fileAnalysisReport' = 0
    /\ fileAnalysisError' = 0
    /\ UNCHANGED <<mode, isLoading, running, history, added, analysisResult>>
    /\ UNCHANGED <<variant, parser, flights, upload>>

\* handleFileChange after its await: parseAndAnalyzeCsv(file) has resolved
ParseResolved ==
    /\ \E parsed \in parses :
           /\ parses' = parses \ {parsed}
           /\ fileAnalysisReport' = parsed
    /\ UNCHANGED <<mode, isLoading, running, history, added, analysisResult,
                   selectedFile, selections, fileAnalysisError>>
    /\ UNCHANGED <<variant, parser, flights, upload>>

\* handleFileChange after its await: parseAndAnalyzeCsv(file) has rejected
ParseRejected ==
    /\ \E parsed \in parses :
           /\ parses' = parses \ {parsed}
           /\ fileAnalysisError' = parsed
    /\ fileAnalysisReport' = 0
    /\ UNCHANGED <<mode, isLoading, running, history, added, analysisResult,
                   selectedFile, selections>>
    /\ UNCHANGED <<variant, parser, flights, upload>>

\* the runs, the history panel and the header
HistoryNext ==
    \/ handleRunAnalysis
    \/ ScenarioGenerated
    \/ ScenarioFailed
    \/ handleHistorySelect
    \/ handleClearHistory
    \/ handleRefresh
    \/ setMode

HistorySpec == Init /\ [][HistoryNext]_vars

\* the file selections and their parses
FileChangeNext ==
    \/ handleFileChange
    \/ ParseResolved
    \/ ParseRejected
    \/ handleRefresh
    \/ setMode

FileChangeSpec == Init /\ [][FileChangeNext]_vars

(***************************************************************************)
(* Properties.                                                             *)
(***************************************************************************)
\* the stages behind column resolution
AfterResolution == {"RowMaterialization", "StatisticsAssembly", "Done"}

\* two distinct column indices
ResolvedDistinct == freqIndex # -1 /\ powerIndex # -1 /\ freqIndex # powerIndex

\* C1: column resolution yields two distinct column indices or fails with a
\* ColumnDetectionError.  Row materialisation and the stages behind it are
\* reached only with freqIndex # powerIndex and neither index -1; a column
\* resolution that ends otherwise rejects the promise with a
\* ColumnDetectionError, and no report is produced.
C1_DistinctIndicesOrDetectionError ==
    /\ [](pc \in AfterResolution => ResolvedDistinct)
    /\ [][pc = "ColumnResolution" =>
            IF ResolvedDistinct'
            THEN pc' = "RowMaterialization" /\ promise' = "pending"
            ELSE /\ pc' = "Failed"
                 /\ promise' = "rejected"
                 /\ error'.name = "ColumnDetectionError"
                 /\ report' = NoReport]_vars
    /\ [](pc = "Failed" => report = NoReport)

\* C1 witness: both manual indices name the same column, and the call was
\* rejected with a ColumnDetectionError
C1_Witness_SameColumnRejected ==
    /\ pc = "Failed"
    /\ error.name = "ColumnDetectionError"
    /\ freqIndex = powerIndex
    /\ freqIndex # -1
    /\ report = NoReport

\* the invocation is over: the promise is settled
Terminal == pc \in {"Done", "Failed"}

\* the reader delivered the text (the failure is not the reader's)
TextWasRead == error # Error(MsgReadFailed)

\* a cell that is text: it starts no number
TextCell(cell) == isNaN(parseFloat(trim(cell)))

\* every line of the text has two comma-separated cells, both of them text
TwoTextColumns(text) ==
    /\ Len(SplitLines(text)) >= 1
    /\ \A i \in 1..Len(SplitLines(text)) :
           /\ Len(split(SplitLines(text)[i], ",")) = 2
           /\ \A c \in 1..2 : TextCell(split(SplitLines(text)[i], ",")[c])

\* a resolved promise carries a report with at least one retained point
NeverEmptyReport ==
    pc = "Done" =>
        /\ promise = "fulfilled"
        /\ Len(allData) >= 1
        /\ Len(report.samples.firstRows) >= 1

\* C2 as claimed: parseAndAnalyzeCsv never returns an empty-but-successful
\* report, and an input whose only two columns are both text always ends in
\* a rejection with a ColumnDetectionError or with the no-valid-data Error.
C2_Claimed_TextOnlyRejectedTwoWays ==
    /\ NeverEmptyReport
    /\ (Terminal /\ TextWasRead /\ TwoTextColumns(file.text)) =>
           /\ promise = "rejected"
           /\ \/ error.name = "ColumnDetectionError"
              \/ error = Error(MsgNoValidData)

\* C2 as amended: parseAndAnalyzeCsv never returns an empty-but-successful
\* report, and an input whose only two columns are both text, once read,
\* always ends in a rejection: with a ColumnDetectionError, with the
\* no-valid-data Error or, when no line follows its header line, with the
\* header-without-data-rows Error.
C2_TextOnlyAlwaysRejected ==
    /\ NeverEmptyReport
    /\ (Terminal /\ TextWasRead /\ TwoTextColumns(file.text)) =>
           /\ promise = "rejected"
           /\ report = NoReport
           /\ \/ error.name = "ColumnDetectionError"
              \/ error = Error(MsgNoValidData)
              \/ error = Error(MsgHeaderOnly) /\ hasHeader /\ dataLines = <<>>

\* C2 witness: the columns of a text-only input were identified, every row
\* was dropped, and the call was rejected for want of valid data
C2_Witness_TextOnlyNoValidData ==
    /\ pc = "Failed"
    /\ TwoTextColumns(file.text)
    /\ error = Error(MsgNoValidData)
    /\ Len(dataLines) >= 1
    /\ allData = <<>>

\* a <= b on doubles
Le(a, b) == ~isNaN(a) /\ ~isNaN(b) /\ ~Positive(Subtract(a, b))

RECURSIVE SumOfPowerFrom(_, _, _)
\* sum plus the power of the points from the i-th on, added in their order
SumOfPowerFrom(points, i, sum) ==
    IF i > Len(points) THEN sum
    ELSE Bind(Add(sum, points[i].power), LAMBDA next :
             SumOfPowerFrom(points, i + 1, next))

SumOfPower(points) == SumOfPowerFrom(points, 1, Finite(0))

\* the rows the loop keeps of the data lines, under the indices in use
Retained ==
    SelectSeq([i \in 1..Len(dataLines) |->
                  MaterializeRow(delimiter, dataLines[i], freqIndex, powerIndex)],
              LAMBDA row : row.kept)

PointsOf(rows) == [i \in 1..Len(rows) |-> rows[i].point]

\* C3: for every successful parse, the frequency and the power of every
\* retained point lie between the min and the max of the stats, each min and
\* max is that of some retained point, and stats.power.avg is the sum of the
\* retained points' power over their number; dropped rows count for neither.
C3_StatsOfRetainedPoints ==
    pc = "Done" =>
        /\ allData = PointsOf(Retained)
        /\ \A i \in 1..Len(allData) :
               /\ Le(report.stats.frequency.min, allData[i].frequency)
               /\ Le(allData[i].frequency, report.stats.frequency.max)
               /\ Le(report.stats.power.min, allData[i].power)
               /\ Le(allData[i].power, report.stats.power.max)
        /\ \E i \in 1..Len(allData) : allData[i].frequency = report.stats.frequency.min
        /\ \E i \in 1..Len(allData) : allData[i].frequency = report.stats.frequency.max
        /\ \E i \in 1..Len(allData) : allData[i].power = report.stats.power.min
        /\ \E i \in 1..Len(allData) : allData[i].power = report.stats.power.max
        /\ report.stats.power.avg =
               Divide(SumOfPower(allData), Len(allData))

\* C3 witness: a parse that dropped rows and retained points of different
\* power ended in a report
C3_Witness_StatsWithDroppedRows ==
    /\ pc = "Done"
    /\ Len(allData) >= 2
    /\ Len(allData) < Len(dataLines)
    /\ report.stats.power.min # report.stats.power.max
    /\ report.stats.frequency.min # report.stats.frequency.max

\* how often the point occurs among the points
Occurrences(points, point) == Cardinality({i \in 1..Len(points) : points[i] = point})

\* C4: for every successful parse with n retained points, peakPowerRows has
\* length min(10, n), is sorted in non-increasing order of power, consists
\* of retained points, and no retained point outside it has strictly greater
\* power than a point inside it.
C4_PeakPowerRowsAreTheTop ==
    pc = "Done" =>
        LET peak == report.samples.peakPowerRows
            n == Len(allData)
        IN  /\ Len(peak) = (IF n < 10 THEN n ELSE 10)
            /\ \A i \in 1..(Len(peak) - 1) : Le(peak[i + 1].power, peak[i].power)
            /\ \A i \in 1..Len(peak) :
                   Occurrences(peak, peak[i]) <= Occurrences(allData, peak[i])
            /\ \A i \in 1..n :
                   (\E j \in 1..Len(peak) :
                       Positive(Subtract(allData[i].power, peak[j].power)))
                   => Occurrences(peak, allData[i]) = Occurrences(allData, allData[i])

\* C4 witness: more than ten points were retained, of more than one power,
\* and the report lists ten of them
C4_Witness_MoreThanTenPoints ==
    /\ pc = "Done"
    /\ Len(allData) > 10
    /\ Len(report.samples.peakPowerRows) = 10
    /\ report.stats.power.min # report.stats.power.max

\* a data row of a two-column capture: a numeric frequency cell, then the
\* power cell
FrequencyThenPower(line) ==
    /\ Len(split(line, ",")) = 2
    /\ isFinite(Number(trim(split(line, ",")[1])))
    /\ trim(split(line, ",")[1]) # <<>>

\* the power cell of a data row is a number
ValidPower(line) ==
    /\ isFinite(Number(trim(split(line, ",")[2])))
    /\ trim(split(line, ",")[2]) # <<>>

\* the data rows of a capture that is nothing but an optional keyword header
\* and data rows
DataRowsOf(textLines) ==
    IF textLines # <<>> /\ Head(textLines) = HeaderKeywords THEN Tail(textLines)
    ELSE textLines

\* a capture of N >= 1 data rows, each with a numeric frequency, of which
\* fewer than N have garbage for their power
MalformedPowerOnly(rows) ==
    /\ Len(rows) >= 1
    /\ \A i \in 1..Len(rows) : FrequencyThenPower(rows[i])
    /\ \E i \in 1..Len(rows) : ValidPower(rows[i])

\* C5: malformed rows are dropped, not fatal.  For an input of N data rows of
\* which k < N have a non-numeric cell in the power column, all other rows
\* being valid, the parse succeeds and retains exactly N - k points,
\* whichever rows, the first data row included, are the malformed ones.
C5_Claimed_MalformedRowsDropped ==
    (/\ Terminal
     /\ TextWasRead
     /\ options = NoOptions
     /\ MalformedPowerOnly(DataRowsOf(SplitLines(file.text))))
    => /\ pc = "Done"
       /\ Len(allData) =
              Len(SelectSeq(DataRowsOf(SplitLines(file.text)), ValidPower))

\* C6: every point of a report (firstRows, lastRows, peakPowerRows) and
\* every value of its stats is finite: a row whose cleaned frequency or power
\* is not a finite number is never retained.
C6_Claimed_ReportIsFinite ==
    pc = "Done" =>
        /\ \A i \in 1..Len(allData) :
               isFinite(allData[i].frequency) /\ isFinite(allData[i].power)
        /\ \A rows \in {report.samples.firstRows, report.samples.lastRows,
                        report.samples.peakPowerRows} :
               \A i \in 1..Len(rows) :
                   isFinite(rows[i].frequency) /\ isFinite(rows[i].power)
        /\ isFinite(report.stats.frequency.min)
        /\ isFinite(report.stats.frequency.max)
        /\ isFinite(report.stats.power.min)
        /\ isFinite(report.stats.power.max)
        /\ isFinite(report.stats.power.avg.num)

Settled == promise \in {"fulfilled", "rejected"}

\* C7: each invocation is a single pass with a single terminal outcome.
\* Given that the reader signals read-completed or read-failed, the promise
\* is eventually settled, and it is settled exactly once: resolved with a
\* report (Done) or rejected with an Error or a ColumnDetectionError.  No
\* failure of a stage is swallowed (a failed invocation has rejected its
\* promise with the error), no stage runs after a failure, and there is no
\* retry: a settled invocation does nothing more.
C7_SingleTerminalOutcome ==
    /\ (promise = "pending") ~> Settled
    /\ [](settles <= 1)
    /\ [](Settled <=> settles = 1)
    /\ [](pc = "Done" <=> promise = "fulfilled")
    /\ [](pc = "Failed" <=> promise = "rejected")
    /\ [](pc = "Done" => report # NoReport /\ error = NoError)
    /\ [](pc = "Failed" =>
            /\ report = NoReport
            /\ error.name \in {"Error", "ColumnDetectionError"})
    /\ [][Terminal => pc' = "Idle"]_vars
    /\ [][(Settled /\ pc' # "Idle") =>
            UNCHANGED <<promise, settles, report, error>>]_vars

\* C7 witness: a failure of a late stage, the row loop that retained
\* nothing, has rejected the promise, once
C7_Witness_LateFailureRejected ==
    /\ pc = "Failed"
    /\ promise = "rejected"
    /\ settles = 1
    /\ error = Error(MsgNoValidData)
    /\ ResolvedDistinct

\* the row splitter of the variant in use
RowSplitter(line) ==
    IF variant = "fixed" THEN parseCsvRowFixed(line) ELSE parseCsvRow(delimiter, line)

\* the payload of a ColumnDetectionError for a file of these lines, the last
\* d of which are its data lines
DetectionPayload(textLines, d) ==
    /\ d <= Len(textLines)
    /\ dataLines = SubSeq(textLines, Len(textLines) - d + 1, Len(textLines))
    /\ Len(error.sampleData) = (IF d < 5 THEN d ELSE 5)
    /\ \A i \in 1..Len(error.sampleData) :
           error.sampleData[i] = RowSplitter(textLines[Len(textLines) - d + i])
    /\ IF hasHeader
       THEN /\ d < Len(textLines)
            /\ error.headers = RowSplitter(textLines[Len(textLines) - d])
       ELSE /\ d >= 1
            /\ error.headers =
                   [i \in 1..Len(RowSplitter(textLines[Len(textLines) - d + 1])) |->
                       <<"C", "o", "l", "u", "m", "n", " ">> \o toString(i)]

\* C8: whenever the call rejects with a ColumnDetectionError, error.headers
\* is the resolved header list (the cells of the header line, or Column 1,
\* Column 2, ... for a headerless input) and error.sampleData is the first
\* min(5, number of data lines) data rows in file order, split by the row
\* splitter of the parse; neither the header line nor a skipped line of
\* preamble is among them.
C8_DetectionErrorPayload ==
    (pc = "Failed" /\ error.name = "ColumnDetectionError") =>
        Bind(SplitLines(file.text), LAMBDA textLines :
            DetectionPayload(textLines, Len(dataLines)))

\* C8 witness: a ColumnDetectionError for a file with a header and more than
\* five data lines carries five sample rows
C8_Witness_FiveOfManyRows ==
    /\ pc = "Failed"
    /\ error.name = "ColumnDetectionError"
    /\ hasHeader
    /\ Len(dataLines) > 5
    /\ Len(error.sampleData) = 5

BothManual == Has(options, "manualFreqIndex") /\ Has(options, "manualPowerIndex")

\* the stages at which the column indices are in use or were
IndicesSet ==
    {"HeaderClassification", "ColumnResolution", "RowMaterialization",
     "StatisticsAssembly", "Done"}

\* the point of a data line under the column indices f and p, and whether the
\* line has both cells and they clean to numbers
ManualPoint(line, f, p) ==
    Bind(RowSplitter(line), LAMBDA cells :
        [kept |-> /\ Len(cells) > f
                  /\ Len(cells) > p
                  /\ ~isNaN(CleanCell(delimiter, at(cells, f)))
                  /\ ~isNaN(CleanCell(delimiter, at(cells, p))),
         point |-> [frequency |-> CleanCell(delimiter, at(cells, f)),
                    power |-> CleanCell(delimiter, at(cells, p))]])

\* with both manual indices the automatic resolution is skipped and the two
\* indices are the ones used: every retained point is made of those two
\* cells of its row, and rows with too few cells are skipped
ManualIndicesUsed ==
    BothManual =>
        /\ pc \in IndicesSet =>
               /\ freqIndex = options.manualFreqIndex
               /\ powerIndex = options.manualPowerIndex
        /\ pc = "Done" =>
               allData = PointsOf(SelectSeq(
                   [i \in 1..Len(dataLines) |->
                       ManualPoint(dataLines[i], options.manualFreqIndex,
                                   options.manualPowerIndex)],
                   LAMBDA row : row.kept))

TwoColumnDataLine(line) ==
    /\ \A i \in 1..Len(line) : line[i] \notin WhiteSpace
    /\ Len(split(line, ",")) = 2
    /\ isFinite(Number(split(line, ",")[1]))

\* the text was read: its first line is this header and the lines below it
\* are comma-separated data lines of two cells
HeaderOfCommaSeparated(header) ==
    /\ TextWasRead
    /\ Bind(SplitLines(file.text), LAMBDA textLines :
           /\ Len(textLines) >= 1
           /\ Head(textLines) = header
           /\ \A i \in 2..Len(textLines) : TwoColumnDataLine(textLines[i]))

\* C10: a header row with one cell that matches only frequency keywords and
\* another that matches only power keywords, as "Frequency (MHz)" and
\* "Power (dBm)" of a comma-separated file, resolves to freqIndex = 0 and
\* powerIndex = 1, in the adaptive and in the fixed variant, and the data
\* rows are parsed with these.
C10_Claimed_UnitHeaderResolved ==
    (/\ pc \in AfterResolution \cup {"Failed"}
     /\ options = NoOptions
     /\ HeaderOfCommaSeparated(HeaderUnits))
    => /\ freqIndex = 0
       /\ powerIndex = 1
       /\ error.name # "ColumnDetectionError"
       /\ pc = "Done" =>
              allData = PointsOf(SelectSeq(
                  [i \in 1..Len(dataLines) |-> ManualPoint(dataLines[i], 0, 1)],
                  LAMBDA row : row.kept))

\* C11: a two-cell header row whose first cell matches both keyword lists
\* and whose second cell matches a keyword, as "Signal_Power_MHz" and "Level",
\* never gets both roles on one index: the second cell takes the role the
\* first cell did not win, and resolution succeeds with the two distinct
\* indices 0 and 1, in the adaptive and in the fixed variant.
C11_Claimed_ConflictResolved ==
    (/\ pc \in AfterResolution \cup {"Failed"}
     /\ options = NoOptions
     /\ HeaderOfCommaSeparated(HeaderConflict))
    => /\ ResolvedDistinct
       /\ {freqIndex, powerIndex} = {0, 1}
       /\ error.name # "ColumnDetectionError"

\* the first min(20, n) of the n rows
Sampled(rows) == SubSeq(rows, 1, IF Len(rows) < 20 THEN Len(rows) ELSE 20)

\* a comma-separated line of two cells: a positive number, then a negative one
PositiveThenNegative(line) ==
    /\ \A i \in 1..Len(line) : line[i] \notin WhiteSpace
    /\ Len(split(line, ",")) = 2
    /\ isFinite(Number(split(line, ",")[1])) /\ Positive(Number(split(line, ",")[1]))
    /\ isFinite(Number(split(line, ",")[2])) /\ Negative(Number(split(line, ",")[2]))

\* the text was read, it has no header and every sampled row of it is a
\* positive number, then a negative one
HeaderlessPositiveNegative ==
    /\ TextWasRead
    /\ Bind(Sampled(SplitLines(file.text)), LAMBDA rows :
           Len(rows) >= 1 /\ \A i \in 1..Len(rows) : PositiveThenNegative(rows[i]))

\* of the sampled rows, those whose cell c is a number, and those whose cell
\* c is a negative number
NumericIn(rows, c) ==
    {r \in 1..Len(rows) : ~isNaN(CleanCell(delimiter, at(rows[r], c)))}

NegativeIn(rows, c) ==
    {r \in NumericIn(rows, c) : Negative(CleanCell(delimiter, at(rows[r], c)))}

\* the columns of the first sampled row that are numeric in more than half
\* of the sampled rows
Qualifying(rows) ==
    {c \in 0..(Len(rows[1]) - 1) : 2 * Cardinality(NumericIn(rows, c)) > Len(rows)}

\* of two or more qualifying columns, the one with strictly the most
\* negative values is the power column, and another of them the frequency
MostNegativeIsPower(rows) ==
    Bind(Qualifying(rows), LAMBDA columns :
    Bind([c \in columns |-> Cardinality(NegativeIn(rows, c))], LAMBDA negatives :
        \A c \in columns :
            (/\ Cardinality(columns) >= 2
             /\ \A other \in columns \ {c} : negatives[c] > negatives[other])
            => /\ powerIndex = c
               /\ freqIndex \in columns \ {c}
               /\ error.name # "ColumnDetectionError"))

\* column resolution has run
Resolved ==
    \/ pc \in AfterResolution
    \/ pc = "Failed" /\ error.name = "ColumnDetectionError"
    \/ pc = "Failed" /\ error \in {Error(MsgHeaderOnly), Error(MsgNoValidData)}

\* C12: for a headerless two-column input in which every sampled row has a
\* positive value in column 0 and a negative value in column 1, the resolver
\* assigns powerIndex = 1 and freqIndex = 0.  Whenever the statistical path
\* runs and two or more columns are numeric in more than half of the (at
\* most 20) sampled rows, the one of them with strictly the most negative
\* values is assigned power.
C12_StatisticalFallback ==
    (Resolved /\ ~BothManual) =>
        /\ HeaderlessPositiveNegative =>
               /\ ~hasHeader
               /\ freqIndex = 0
               /\ powerIndex = 1
               /\ error.name # "ColumnDetectionError"
        /\ (~hasHeader /\ Len(dataLines) >= 1) =>
               Bind([r \in 1..Len(Sampled(dataLines)) |-> RowSplitter(dataLines[r])],
                    LAMBDA rows : MostNegativeIsPower(rows))

\* C12 witness: a headerless capture of positive frequencies and negative
\* powers is parsed with frequency 0 and power 1
C12_Witness_PositiveNegativeResolved ==
    /\ pc = "Done"
    /\ options = NoOptions
    /\ HeaderlessPositiveNegative
    /\ Len(dataLines) >= 2
    /\ freqIndex = 0
    /\ powerIndex = 1

\* the lines of the text that are not blank, in file order
NonBlank(rawLines) ==
    Bind({i \in 1..Len(rawLines) : trim(rawLines[i]) # <<>>}, LAMBDA kept :
        [k \in 1..Cardinality(kept) |->
            rawLines[CHOOSE i \in kept : Cardinality({j \in kept : j < i}) = k - 1]])

\* the parser took the first non-blank line of the file for the header: no
\* line was skipped before it
FirstLineIsHeader(nonBlank) ==
    /\ hasHeader
    /\ Len(lines) = Len(nonBlank)

\* C13: for an input whose first non-blank line is recognised as the header,
\* with c cells, and is followed by n non-blank data lines, a successful
\* report has the c header cells in order for its headers, columnCount = c
\* and rowCount = n; blank lines are not counted.
C13_ReportShapeOfHeadedFile ==
    pc = "Done" =>
        Bind(NonBlank(splitLines(file.text)), LAMBDA nonBlank :
            FirstLineIsHeader(nonBlank) =>
                /\ report.headers = RowSplitter(nonBlank[1])
                /\ report.columnCount = Len(RowSplitter(nonBlank[1]))
                /\ report.rowCount = Len(nonBlank) - 1)

\* C13 witness: the header freq,power and three data lines, with blank
\* lines between them, give rowCount 3 and columnCount 2
C13_Witness_ThreeRowsBetweenBlanks ==
    /\ pc = "Done"
    /\ hasHeader
    /\ Len(splitLines(file.text)) > 4
    /\ report.rowCount = 3
    /\ report.columnCount = 2
    /\ report.headers = split(HeaderKeywords, ",")
    /\ \E i \in 1..Len(splitLines(file.text)) : trim(splitLines(file.text)[i]) = <<>>

\* the outcome of the invocation followed stage by stage
SettledWith == [promise |-> promise, report |-> report, error |-> error]

\* the stages of the parser, taken one by one, make the run of reader.onload
StagesMakeOnload ==
    Terminal =>
        SettledWith = (IF TextWasRead THEN onload(variant, file, options) ELSE onerror)

\* what invocation i was settled with
OutcomeOf(i) ==
    [promise |-> flights[i].promise, report |-> flights[i].report,
     error |-> flights[i].error]

\* invocation i is settled, and not for a failure of its read
SettledOnText(i) ==
    /\ flights[i].phase = "settled"
    /\ flights[i].error # Error(MsgReadFailed)

Alone(i) == onload(variant, flights[i].file, flights[i].options)

C16_Claimed_NeverAnalysedOverLimit ==
    lastRun.called =>
        /\ lastRun.size <= MAX_FILE_SIZE_BYTES
        /\ uploadedFile.size > MAX_FILE_SIZE_BYTES => lastRun.segment # "whole"
        /\ lastRun.segment # "whole" =>
               /\ 0 <= lastRun.start
               /\ lastRun.start <= lastRun.end
               /\ lastRun.end <= uploadedFile.size
               /\ lastRun.end - lastRun.start <= MAX_FILE_SIZE_BYTES

\* detectDelimiter has just returned: delimiter holds its result for the
\* first fifty of lines
Detected == pc = "DataStartLocation" /\ variant = "adaptive"

SampledLines == SubSeq(lines, 1, Min(Len(lines), 50))

\* the columns a sampled line has on d: one more than the occurrences of d
ColumnsOn(i, d) ==
    Cardinality({k \in 1..Len(SampledLines[i]) : SampledLines[i][k] = d}) + 1

\* the sampled lines d occurs in
SplitsOn(d) == {i \in 1..Len(SampledLines) : ColumnsOn(i, d) > 1}

RECURSIVE SumOver(_, _, _)
\* the sum over the lines of S of the k-th power (k = 1, 2) of their column
\* counts on d
SumOver(S, d, k) ==
    IF S = {} THEN 0
    ELSE LET i == CHOOSE x \in S : TRUE
         IN  (IF k = 1 THEN ColumnsOn(i, d) ELSE ColumnsOn(i, d) * ColumnsOn(i, d))
                 + SumOver(S \ {i}, d, k)

\* n * n times the population variance of the column counts above one
VarianceTimesSquare(d) ==
    Cardinality(SplitsOn(d)) * SumOver(SplitsOn(d), d, 2)
        - SumOver(SplitsOn(d), d, 1) * SumOver(SplitsOn(d), d, 1)

\* d occurs in at least half of the first five sampled lines' number
PassesPresence(d) == 2 * Cardinality(SplitsOn(d)) >= Min(Len(SampledLines), 5)

\* d passes the presence test with a standard deviation below 0.5
Qualifies(d) ==
    /\ PassesPresence(d)
    /\ 4 * VarianceTimesSquare(d) < Cardinality(SplitsOn(d)) * Cardinality(SplitsOn(d))

CandidateDelimiters == {",", ";", TAB}

\* C17: detectDelimiter never raises: for every non-empty sample, also one
\* in which no line holds a comma, semicolon or tab, it returns the comma,
\* the semicolon, the tab or the white space marker, and the white space
\* marker whenever no candidate qualifies.
C17_DetectDelimiterTotal ==
    /\ variant = "adaptive" => error # TypeError(MsgReduceEmpty)
    /\ Detected =>
          /\ delimiter \in CandidateDelimiters \cup {SP}
          /\ (\A d \in CandidateDelimiters : ~Qualifies(d)) => delimiter = SP

\* C17 witness: two or more lines without comma, semicolon or tab, and the
\* white space marker returned.
C17_Witness_NoCandidateOccurs ==
    /\ Detected
    /\ Len(lines) >= 2
    /\ \A d \in CandidateDelimiters : SplitsOn(d) = {}
    /\ delimiter = SP

\* every sampled line has the same number, two or more, of columns on d
ConsistentOn(d) ==
    /\ ColumnsOn(1, d) >= 2
    /\ \A i \in 1..Len(SampledLines) : ColumnsOn(i, d) = ColumnsOn(1, d)

\* C18: for a sample in which every line is comma-separated with the same
\* column count (two or more), detectDelimiter selects the comma, also when
\* the lines contain spaces or when another candidate (semicolon, tab)
\* occurs with an equally consistent column count.
C18_ConsistentCommaSelected ==
    (Detected /\ ConsistentOn(",")) => delimiter = ","

\* C18 witness: a sample consistent on the comma and on another candidate,
\* with a space in every line, and the comma returned.
C18_Witness_SpacesAndSemicolons ==
    /\ Detected
    /\ Len(lines) >= 2
    /\ ConsistentOn(",")
    /\ \E d \in {";", TAB} : ConsistentOn(d)
    /\ \A i \in 1..Len(SampledLines) : ColumnsOn(i, SP) > 1
    /\ delimiter = ","

\* C19: detectDelimiter discards a candidate if fewer than half of the
\* sampled lines (up to 50) split into more than one column on it: a
\* delimiter that occurs in fewer than half of the sampled lines is never
\* returned.
C19_Claimed_RareDelimiterNeverReturned ==
    Detected =>
        \A d \in CandidateDelimiters :
            2 * Cardinality(SplitsOn(d)) < Len(SampledLines) => delimiter # d

\* the deviations of two candidates, compared without division
LessDeviation(d, e) ==
    VarianceTimesSquare(d) * Cardinality(SplitsOn(e)) * Cardinality(SplitsOn(e))
        < VarianceTimesSquare(e) * Cardinality(SplitsOn(d)) * Cardinality(SplitsOn(d))

\* comma before semicolon before tab
Priority(d) == IF d = "," THEN 1 ELSE IF d = ";" THEN 2 ELSE 3

\* delimiter is the least of the candidates in S by deviation and then by
\* priority, or the white space marker when S is empty
LeastOf(S) ==
    IF S = {} THEN delimiter = SP
    ELSE /\ delimiter \in S
         /\ \A e \in S :
               /\ ~LessDeviation(e, delimiter)
               /\ ~LessDeviation(delimiter, e) => Priority(delimiter) <= Priority(e)

\* C20 as claimed: among the candidates that survive the presence test,
\* detectDelimiter returns the one of lowest population standard deviation
\* of the column count, ties broken comma > semicolon > tab; white space
\* splitting is chosen only when no candidate survives.
C20_Claimed_LeastDeviationOfSurvivors ==
    Detected => LeastOf({d \in CandidateDelimiters : PassesPresence(d)})

\* C20: among the candidates that pass the presence test of line 77 with a
\* standard deviation below 0.5, detectDelimiter returns the one of lowest
\* deviation, ties broken comma > semicolon > tab; white space splitting is
\* chosen exactly when there is no such candidate.
C20_LeastDeviationOfQualifying ==
    Detected => LeastOf({d \in CandidateDelimiters : Qualifies(d)})

\* C20 witness: the comma qualifies and the semicolon, of lower deviation,
\* is returned.
C20_Witness_SemicolonBeatsComma ==
    /\ Detected
    /\ Qualifies(",")
    /\ LessDeviation(";", ",")
    /\ delimiter = ";"

\* the non-blank lines of the file, before any is dropped
AllLines == SplitLines(file.text)

\* line i of the first ten tokenizes into two or more cells, the first of
\* them numeric
StartsData(i) ==
    /\ i <= Min(10, Len(AllLines))
    /\ Len(Tokenize(delimiter, AllLines[i])) >= 2
    /\ NumericCell(delimiter, Tokenize(delimiter, AllLines[i])[1])

\* line i has as many cells as the line after it, one of them not numeric
HeadsNext(i) ==
    /\ Len(Tokenize(delimiter, AllLines[i])) = Len(Tokenize(delimiter, AllLines[i + 1]))
    /\ \E k \in 1..Len(Tokenize(delimiter, AllLines[i])) :
           ~NumericCell(delimiter, Tokenize(delimiter, AllLines[i])[k])

\* the line the data start is claimed to be, counted from 1
ClaimedStart ==
    IF \A i \in 1..Len(AllLines) : ~StartsData(i) THEN 1
    ELSE LET first == CHOOSE i \in 1..Len(AllLines) :
                          StartsData(i) /\ \A j \in 1..(i - 1) : ~StartsData(j)
         IN  IF first > 1 /\ HeadsNext(first - 1) THEN first - 1 ELSE first

\* the data start has been located: lines holds the lines from it on
Located ==
    pc \in {"HeaderClassification", "ColumnResolution", "RowMaterialization",
            "StatisticsAssembly"}

\* C21: the data start is the first of the first 10 non-blank lines with two
\* or more cells and a numeric first cell, moved back by one when the line
\* before has as many cells and is not fully numeric, and index 0 when no
\* such line is found; no line before the data start becomes the header or
\* a data line.
C21_Claimed_DataStart ==
    Located =>
        /\ pc = "HeaderClassification" =>
               lines = SubSeq(AllLines, ClaimedStart, Len(AllLines))
        /\ pc # "HeaderClassification" =>
               /\ Len(dataLines) <= Len(AllLines) - ClaimedStart + 1
               /\ dataLines = SubSeq(AllLines, Len(AllLines) - Len(dataLines) + 1,
                                     Len(AllLines))

\* no cell of the header row matches a keyword of either role
NoKeywordMatch ==
    Bind(HeaderCandidates(delimiter, headerValues), LAMBDA candidates :
        \A i \in 1..Len(candidates) :
            candidates[i].freqScore = 0 /\ candidates[i].powerScore = 0)

\* C22: when a header row is present but yields no keyword match on either
\* axis, the statistical profiling runs over the data rows as for a
\* headerless input, and the parse fails with ColumnDetectionError only if
\* fewer than two qualifying numeric columns exist.
C22_Claimed_UnusableHeaderProfiled ==
    (Resolved /\ ~BothManual /\ hasHeader /\ NoKeywordMatch /\ Len(dataLines) >= 1) =>
        Bind([r \in 1..Len(Sampled(dataLines)) |-> RowSplitter(dataLines[r])],
             LAMBDA rows :
                 (Len(rows[1]) >= 2 /\ Cardinality(Qualifying(rows)) >= 2)
                     => error.name # "ColumnDetectionError")

\* column c comes before column d in the ranking by numericCount, most
\* numeric first, the lower index first among equals
RanksBefore(rows, c, d) ==
    \/ Cardinality(NumericIn(rows, c)) > Cardinality(NumericIn(rows, d))
    \/ Cardinality(NumericIn(rows, c)) = Cardinality(NumericIn(rows, d)) /\ c < d

\* the statistical path has assigned both roles among three or more
\* qualifying columns of the sampled rows
ProfiledThreeOrMore(rows) ==
    /\ Len(rows[1]) >= 2
    /\ Cardinality(Qualifying(rows)) >= 3
    /\ error.name # "ColumnDetectionError"

\* C23: in the statistical path with three or more qualifying numeric
\* columns, frequency is assigned to the highest-ranked remaining column of
\* the ranking by numericCount, not to the remaining column with the next
\* most negative values.
C23_Claimed_FrequencyByNumericRanking ==
    (Resolved /\ ~BothManual /\ ~hasHeader /\ Len(dataLines) >= 1) =>
        Bind([r \in 1..Len(Sampled(dataLines)) |-> RowSplitter(dataLines[r])],
             LAMBDA rows :
                 ProfiledThreeOrMore(rows) =>
                     /\ freqIndex \in Qualifying(rows) \ {powerIndex}
                     /\ \A d \in Qualifying(rows) \ {powerIndex, freqIndex} :
                            RanksBefore(rows, freqIndex, d))

\* the header cells as scoreHeader is given them
LowerCaseHeaders == [i \in 1..Len(headerValues) |-> trim(toLowerCase(headerValues[i]))]

\* the header is one of the keywords
ExactMatch(header, keywords) == \E k \in 1..Len(keywords) : keywords[k] = header

\* among the header cells, each exact match of a keyword scores strictly
\* higher than each cell that is no exact match
ExactMatchDominates(keywords) ==
    \A i, j \in 1..Len(headerValues) :
        (ExactMatch(LowerCaseHeaders[i], keywords) /\ ~ExactMatch(LowerCaseHeaders[j], keywords))
            => scoreHeader(LowerCaseHeaders[i], keywords)
                   > scoreHeader(LowerCaseHeaders[j], keywords)

\* a header row has been read by the adaptive parser
HeaderRead ==
    /\ variant = "adaptive"
    /\ pc \in {"ColumnResolution", "RowMaterialization", "StatisticsAssembly", "Done"}
    /\ hasHeader

\* C24: for each role, a header cell that is exactly one of the role's
\* keywords scores strictly higher in scoreHeader than every cell that only
\* contains keywords, whatever their number, so the exact-match column is
\* ranked first for that role.
C24_Claimed_ExactMatchDominates ==
    HeaderRead =>
        /\ ExactMatchDominates(freqKeywords)
        /\ ExactMatchDominates(powerKeywords)
        /\ Bind(FreqCandidates(HeaderCandidates(delimiter, headerValues)), LAMBDA ranked :
               (\E i \in 1..Len(headerValues) : ExactMatch(LowerCaseHeaders[i], freqKeywords))
                   => ExactMatch(LowerCaseHeaders[ranked[1].index + 1], freqKeywords))

\* the parse has ended on an input with a header line and no data row
\* after it
HeaderWithoutData == Terminal /\ hasHeader /\ dataLines = <<>>

\* C25: whenever the input has a header line but no data rows after it,
\* parseAndAnalyzeCsv rejects with a plain Error without recovery payload,
\* never with ColumnDetectionError, whether or not the header's columns can
\* be resolved.
C25_Claimed_HeaderOnlyIsPlainError ==
    HeaderWithoutData =>
        /\ promise = "rejected"
        /\ error.name = "Error"
        /\ DOMAIN error = {"name", "message"}

\* C26: for a successful parse with retained points p1..pn in file order,
\* samples.firstRows is p1..p(min(10,n)) and samples.lastRows is the last
\* min(10,n) points, both in file order whatever the sorts of the
\* statistics did; the three windows are independent and not deduplicated
\* (for n <= 10 firstRows and lastRows are the same sequence).
C26_SampleWindows ==
    pc = "Done" =>
        LET n == Len(allData)
            m == Min(10, n)
        IN  /\ report.samples.firstRows = [i \in 1..m |-> allData[i]]
            /\ report.samples.lastRows = [i \in 1..m |-> allData[n - m + i]]
            /\ Len(report.samples.peakPowerRows) = m
            /\ n <= 10 => report.samples.firstRows = report.samples.lastRows

\* C26 witness: more than ten points, not in the order of their power, so
\* that the three windows differ from one another.
C26_Witness_MoreThanTenUnsorted ==
    /\ pc = "Done"
    /\ Len(allData) > 10
    /\ report.samples.firstRows # report.samples.lastRows
    /\ report.samples.firstRows # report.samples.peakPowerRows
    /\ report.samples.lastRows # report.samples.peakPowerRows
    /\ report.samples.firstRows[1] = allData[1]

C28_Claimed_ResultOfCurrentFile ==
    parses = {} =>
        /\ fileAnalysisReport \in {0, selectedFile}
        /\ fileAnalysisError \in {0, selectedFile}

\* exactly one of manualFreqIndex and manualPowerIndex is supplied
PartialManual == Has(options, "manualFreqIndex") # Has(options, "manualPowerIndex")

\* C29: when exactly one of manualFreqIndex / manualPowerIndex is supplied,
\* the outcome of parseAndAnalyzeCsv (report or error) is identical to that
\* of the same call with no options, and the supplied index is never the
\* resolved index of a role that automatic resolution left unassigned.
C29_Claimed_PartialOverrideIgnored ==
    (Terminal /\ TextWasRead /\ PartialManual) =>
        SettledWith = onload(variant, file, NoOptions)

\* every non-blank line of the file has, at the resolved frequency and power
\* columns, cells that clean to numbers
EveryLineIsData ==
    \A i \in 1..Len(AllLines) : ManualPoint(AllLines[i], freqIndex, powerIndex).kept

\* C30: if every non-blank line of the input has, at the resolved frequency
\* and power columns, cells that cleanAndParseFloat turns into numbers (unit
\* suffixes included), then a successful parse retains one point per line,
\* and no such line is classified as the header.
C30_Claimed_NoDataLineAsHeader ==
    (pc = "Done" /\ EveryLineIsData) =>
        /\ Len(allData) = Len(AllLines)
        /\ ~hasHeader
====
